---- MODULE Spec2Model ----
(***************************************************************************)
(* A model of the libSEDML element nodes SedComputeChange and SedPlot2D:   *)
(* the heap of objects they own (child elements, MathML trees), the child  *)
(* collections mVariable / mParameter / mCurve, the math member mMath, and *)
(* the public operations of sedml/SedComputeChange.cpp and                 *)
(* sedml/SedPlot2D.cpp.  Objects live at addresses so that ownership,      *)
(* copying and aliasing are visible.                                       *)
(***************************************************************************)
EXTENDS Integers, Sequences, FiniteSets, TLC

\* ------------------------------------------------------------------ bounds
\* Number of heap cells: every live object (child element or ASTNode) takes one.
MaxAddr == 3

\* The null pointer; addresses are 1..MaxAddr.
NULL == 0

Addr == 1..MaxAddr

\* Handles of element nodes the caller may hold, in a fixed order.
HandleSeq == <<"e", "c">>

Handles == {HandleSeq[i] : i \in 1..Len(HandleSeq)}

\* Identifiers a caller gives to child elements; "" is the unset identifier.
Ids == {"a"}

UnsetId == ""

\* MathML trees, abstracted to the operator and its number of arguments.
Trees == { [fn |-> "divide", nargs |-> 2],
           [fn |-> "power",  nargs |-> 2],
           [fn |-> "divide", nargs |-> 1] }

\* readMathML returning no tree.
NoTree == [fn |-> "none", nargs |-> 0]

VARIABLES
    heap,    \* Addr -> the object stored there, or Free
    node,    \* Handles -> the element node behind the handle, or NoNode
    caller,  \* addresses of the objects the caller owns
    log,     \* the diagnostics reported so far, a sequence of SedError
    parent   \* Handles -> the parent links of the collections of the node

vars == <<heap, node, caller, log, parent>>

\* ------------------------------------------------------------ return codes
LIBSEDML_OPERATION_SUCCESS == "LIBSEDML_OPERATION_SUCCESS"

LIBSEDML_INVALID_ATTRIBUTE_VALUE == "LIBSEDML_INVALID_ATTRIBUTE_VALUE"

LIBSEDML_INVALID_OBJECT == "LIBSEDML_INVALID_OBJECT"

\* ------------------------------------------------------------------- heap
\* A heap cell holding no object.
Free == [type |-> "free", id |-> "", fn |-> "none", nargs |-> 0]

NoNode == [kind |-> "none"]

FreeAddrs(hp) == {a \in DOMAIN hp : hp[a] = Free}

\* operator new: the lowest free address.
New(hp) == CHOOSE a \in FreeAddrs(hp) : \A b \in FreeAddrs(hp) : a <= b

\* operator delete: deleting NULL is a no-op.
Delete(hp, a) == IF a = NULL THEN hp ELSE [hp EXCEPT ![a] = Free]

Range(s) == {s[i] : i \in 1..Len(s)}

\* A result of a method: the heap and the node after it, its integer or
\* boolean result and the pointer it returns.
Result(hp, this, ret, obj) == [heap |-> hp, this |-> this, ret |-> ret, obj |-> obj]

\* --------------------------------------------------------------- ASTNode
ASTNode(tree) == [type |-> "ASTNode", fn |-> tree.fn, nargs |-> tree.nargs]

\* ASTNode::isWellFormedASTNode: a binary operator has two arguments.
isWellFormedASTNode(o) == o.type = "ASTNode" /\ o.nargs = 2

\* ASTNode::deepCopy: a new tree with the same contents.
deepCopy(hp, a) == [heap |-> [hp EXCEPT ![New(hp)] = hp[a]], obj |-> New(hp)]

\* ------------------------------------------------------------- SedListOf
\* The ordered child collection (SedListOf): a sequence of owned addresses.

\* SedListOf::appendAndOwn: stores the given element itself, at the end.
SedListOf_appendAndOwn(items, a) == Append(items, a)

\* SedListOf::append: stores a copy of the given element, at the end.
SedListOf_append(hp, items, a) ==
    [heap |-> [hp EXCEPT ![New(hp)] = hp[a]],
     items |-> SedListOf_appendAndOwn(items, New(hp))]

\* SedListOf::size
SedListOf_size(items) == Len(items)

\* SedListOf::get(unsigned int n): the nth element (0-based) or NULL.
SedListOf_get(items, n) == IF n < Len(items) THEN items[n + 1] ELSE NULL

\* Position (1-based) of the first element carrying sid, 0 when there is none.
FirstWithId(hp, items, sid) ==
    IF \E i \in 1..Len(items) : hp[items[i]].id = sid
    THEN CHOOSE i \in 1..Len(items) :
            /\ hp[items[i]].id = sid
            /\ \A j \in 1..(i - 1) : hp[items[j]].id # sid
    ELSE 0

\* SedListOf::get(const std::string& sid): the first match or NULL.
SedListOf_getById(hp, items, sid) ==
    IF FirstWithId(hp, items, sid) = 0 THEN NULL
    ELSE items[FirstWithId(hp, items, sid)]

\* The sequence without its element at (1-based) position i.
Without(items, i) == [j \in 1..(Len(items) - 1) |-> IF j < i THEN items[j] ELSE items[j + 1]]

\* SedListOf::remove(unsigned int n): detaches the nth element and returns it.
SedListOf_remove(items, n) ==
    IF n < Len(items)
    THEN [items |-> Without(items, n + 1), obj |-> items[n + 1]]
    ELSE [items |-> items, obj |-> NULL]

\* SedListOf::remove(const std::string& sid): detaches the first match.
SedListOf_removeById(hp, items, sid) ==
    IF FirstWithId(hp, items, sid) = 0
    THEN [items |-> items, obj |-> NULL]
    ELSE [items |-> Without(items, FirstWithId(hp, items, sid)),
          obj |-> items[FirstWithId(hp, items, sid)]]

\* Deep copy of a sequence of elements, in order.
RECURSIVE CloneItems(_, _, _)
CloneItems(hp, src, acc) ==
    IF src = <<>> THEN [heap |-> hp, items |-> acc]
    ELSE CloneItems([hp EXCEPT ![New(hp)] = hp[Head(src)]], Tail(src),
                    Append(acc, New(hp)))

\* SedListOf destructor: releases every element still held.
SedListOf_dtor(hp, items) ==
    [a \in DOMAIN hp |-> IF a \in Range(items) THEN Free ELSE hp[a]]

\* SedListOf::operator=: releases the elements held and deep-copies the source's.
SedListOf_assign(hp, items, src) == CloneItems(SedListOf_dtor(hp, items), src, <<>>)

\* ------------------------------------------------------- child elements
\* new SedVariable(), new SedParameter(), new SedCurve(): no identifier set.
SedVariable == [type |-> "SedVariable", id |-> UnsetId]

SedParameter == [type |-> "SedParameter", id |-> UnsetId]

SedCurve == [type |-> "SedCurve", id |-> UnsetId]

ElementTypes == {"SedVariable", "SedParameter", "SedCurve"}

\* setId of a child element.
setId(hp, a, id) == [hp EXCEPT ![a].id = id]

\* Live objects of a type.
Live(hp, t) == {a \in DOMAIN hp : hp[a].type = t}

\* ------------------------------------------------------ SedComputeChange
\* SedComputeChange::SedComputeChange(level, version) and (SedNamespaces*)
SedComputeChange_new ==
    [kind |-> "SedComputeChange", mVariable |-> <<>>, mParameter |-> <<>>, mMath |-> NULL]

\* A faulty CopyMath: the copy takes the pointer instead of a deep copy.
CopyMath_shallow(hp, m) == [heap |-> hp, obj |-> m]

\* mMath = orig.mMath != NULL ? orig.mMath->deepCopy() : NULL
CopyMath(hp, m) == IF m # NULL THEN deepCopy(hp, m) ELSE [heap |-> hp, obj |-> NULL]

\* A faulty copy constructor: the member mParameter is not copied.
SedComputeChange_copy_noParameters(hp, orig) ==
    LET v == SedListOf_assign(hp, <<>>, orig.mVariable)
        m == CopyMath(v.heap, orig.mMath)
    IN Result(m.heap,
              [kind |-> "SedComputeChange", mVariable |-> v.items,
               mParameter |-> <<>>, mMath |-> m.obj],
              "", NULL)

\* SedComputeChange::SedComputeChange(const SedComputeChange& orig), orig not null
SedComputeChange_copy(hp, orig) ==
    LET v == SedListOf_assign(hp, <<>>, orig.mVariable)
        p == SedListOf_assign(v.heap, <<>>, orig.mParameter)
        m == CopyMath(p.heap, orig.mMath)
    IN Result(m.heap,
              [kind |-> "SedComputeChange", mVariable |-> v.items,
               mParameter |-> p.items, mMath |-> m.obj],
              "", NULL)

\* SedComputeChange::operator=(const SedComputeChange& rhs); self is &rhs == this
SedComputeChange_assign(hp, this, rhs, self) ==
    IF self THEN Result(hp, this, "", NULL)
    ELSE LET v == SedListOf_assign(hp, this.mVariable, rhs.mVariable)
             p == SedListOf_assign(v.heap, this.mParameter, rhs.mParameter)
             m == CopyMath(p.heap, rhs.mMath)
         IN Result(m.heap,
                   [this EXCEPT !.mVariable = v.items, !.mParameter = p.items,
                                !.mMath = m.obj],
                   "", NULL)

\* SedComputeChange::clone
SedComputeChange_clone(hp, this) == SedComputeChange_copy(hp, this)

\* SedComputeChange::~SedComputeChange: the body is empty; the members
\* mVariable and mParameter are destroyed, the pointer mMath is dropped.
SedComputeChange_dtor(hp, this) ==
    SedListOf_dtor(SedListOf_dtor(hp, this.mVariable), this.mParameter)

\* A faulty setMath: the test of well-formedness is missing.
setMath_unchecked(hp, this, math) ==
    IF this.mMath = math
    THEN Result(hp, this, LIBSEDML_OPERATION_SUCCESS, NULL)
    ELSE IF math = NULL
    THEN Result(Delete(hp, this.mMath), [this EXCEPT !.mMath = NULL],
                LIBSEDML_OPERATION_SUCCESS, NULL)
    ELSE LET m == deepCopy(Delete(hp, this.mMath), math)
         IN Result(m.heap, [this EXCEPT !.mMath = m.obj],
                   LIBSEDML_OPERATION_SUCCESS, NULL)

\* A faulty setMath: the caller's tree itself is stored, not a deep copy.
setMath_shallow(hp, this, math) ==
    IF this.mMath = math
    THEN Result(hp, this, LIBSEDML_OPERATION_SUCCESS, NULL)
    ELSE IF math = NULL
    THEN Result(Delete(hp, this.mMath), [this EXCEPT !.mMath = NULL],
                LIBSEDML_OPERATION_SUCCESS, NULL)
    ELSE IF ~isWellFormedASTNode(hp[math])
    THEN Result(hp, this, LIBSEDML_INVALID_OBJECT, NULL)
    ELSE Result(Delete(hp, this.mMath), [this EXCEPT !.mMath = math],
                LIBSEDML_OPERATION_SUCCESS, NULL)

\* SedComputeChange::setMath
setMath(hp, this, math) ==
    IF this.mMath = math
    THEN Result(hp, this, LIBSEDML_OPERATION_SUCCESS, NULL)
    ELSE IF math = NULL
    THEN Result(Delete(hp, this.mMath), [this EXCEPT !.mMath = NULL],
                LIBSEDML_OPERATION_SUCCESS, NULL)
    ELSE IF ~isWellFormedASTNode(hp[math])
    THEN Result(hp, this, LIBSEDML_INVALID_OBJECT, NULL)
    ELSE LET m == deepCopy(Delete(hp, this.mMath), math)
         IN Result(m.heap, [this EXCEPT !.mMath = m.obj],
                   LIBSEDML_OPERATION_SUCCESS, NULL)

\* SedComputeChange::unsetMath
unsetMath(hp, this) ==
    Result(Delete(hp, this.mMath), [this EXCEPT !.mMath = NULL],
           LIBSEDML_OPERATION_SUCCESS, NULL)

\* A faulty removeVariable(n): an index past the end takes the last element.
removeVariable_clamped(hp, this, n) ==
    LET r == SedListOf_remove(this.mVariable,
                              IF n < Len(this.mVariable) \/ this.mVariable = <<>>
                              THEN n ELSE Len(this.mVariable) - 1)
    IN Result(hp, [this EXCEPT !.mVariable = r.items], "", r.obj)

\* A faulty removeVariable(n): the removed element is destroyed.
removeVariable_destroying(hp, this, n) ==
    LET r == SedListOf_remove(this.mVariable, n)
    IN Result(Delete(hp, r.obj), [this EXCEPT !.mVariable = r.items], "", r.obj)

\* SedComputeChange::removeVariable(unsigned int n)
removeVariable(hp, this, n) ==
    LET r == SedListOf_remove(this.mVariable, n)
    IN Result(hp, [this EXCEPT !.mVariable = r.items], "", r.obj)

\* A faulty removeVariable(sid): it removes from mParameter.
removeVariableById_wrongList(hp, this, sid) ==
    LET r == SedListOf_removeById(hp, this.mParameter, sid)
    IN Result(hp, [this EXCEPT !.mParameter = r.items], "", r.obj)

\* SedComputeChange::removeVariable(const std::string& sid)
removeVariableById(hp, this, sid) ==
    LET r == SedListOf_removeById(hp, this.mVariable, sid)
    IN Result(hp, [this EXCEPT !.mVariable = r.items], "", r.obj)

\* SedComputeChange::getVariable(unsigned int n)
getVariable(hp, this, n) == Result(hp, this, "", SedListOf_get(this.mVariable, n))

\* SedComputeChange::getVariable(const std::string& sid)
getVariableById(hp, this, sid) ==
    Result(hp, this, "", SedListOf_getById(hp, this.mVariable, sid))

\* A faulty addVariable: a null argument is reported with the code the
\* C wrappers use for a null handle.
addVariable_wrongCode(hp, this, sv) ==
    IF sv = NULL THEN Result(hp, this, LIBSEDML_INVALID_OBJECT, NULL)
    ELSE LET r == SedListOf_append(hp, this.mVariable, sv)
         IN Result(r.heap, [this EXCEPT !.mVariable = r.items],
                   LIBSEDML_OPERATION_SUCCESS, NULL)

\* A faulty addVariable: success is returned and nothing is stored.
addVariable_noAppend(hp, this, sv) ==
    IF sv = NULL THEN Result(hp, this, LIBSEDML_INVALID_ATTRIBUTE_VALUE, NULL)
    ELSE Result(hp, this, LIBSEDML_OPERATION_SUCCESS, NULL)

\* A faulty addVariable: the argument itself is stored, not a copy.
addVariable_own(hp, this, sv) ==
    IF sv = NULL THEN Result(hp, this, LIBSEDML_INVALID_ATTRIBUTE_VALUE, NULL)
    ELSE Result(hp, [this EXCEPT !.mVariable = SedListOf_appendAndOwn(this.mVariable, sv)],
                LIBSEDML_OPERATION_SUCCESS, NULL)

\* SedComputeChange::addVariable
addVariable(hp, this, sv) ==
    IF sv = NULL THEN Result(hp, this, LIBSEDML_INVALID_ATTRIBUTE_VALUE, NULL)
    ELSE LET r == SedListOf_append(hp, this.mVariable, sv)
         IN Result(r.heap, [this EXCEPT !.mVariable = r.items],
                   LIBSEDML_OPERATION_SUCCESS, NULL)

\* SedComputeChange::getNumVariables
getNumVariables(this) == SedListOf_size(this.mVariable)

\* A faulty createVariable: the collection stores a copy of the new element.
createVariable_append(hp, this) ==
    LET temp == New(hp)
        made == [hp EXCEPT ![temp] = SedVariable]
        r == SedListOf_append(made, this.mVariable, temp)
    IN Result(r.heap, [this EXCEPT !.mVariable = r.items], "", temp)

\* SedComputeChange::createVariable
createVariable(hp, this) ==
    LET temp == New(hp)
    IN Result([hp EXCEPT ![temp] = SedVariable],
              [this EXCEPT !.mVariable = SedListOf_appendAndOwn(this.mVariable, temp)],
              "", temp)

\* SedComputeChange::removeParameter(unsigned int n)
removeParameter(hp, this, n) ==
    LET r == SedListOf_remove(this.mParameter, n)
    IN Result(hp, [this EXCEPT !.mParameter = r.items], "", r.obj)

\* SedComputeChange::removeParameter(const std::string& sid)
removeParameterById(hp, this, sid) ==
    LET r == SedListOf_removeById(hp, this.mParameter, sid)
    IN Result(hp, [this EXCEPT !.mParameter = r.items], "", r.obj)

\* SedComputeChange::getParameter(unsigned int n)
getParameter(hp, this, n) == Result(hp, this, "", SedListOf_get(this.mParameter, n))

\* SedComputeChange::getParameter(const std::string& sid)
getParameterById(hp, this, sid) ==
    Result(hp, this, "", SedListOf_getById(hp, this.mParameter, sid))

\* SedComputeChange::addParameter
addParameter(hp, this, sp) ==
    IF sp = NULL THEN Result(hp, this, LIBSEDML_INVALID_ATTRIBUTE_VALUE, NULL)
    ELSE LET r == SedListOf_append(hp, this.mParameter, sp)
         IN Result(r.heap, [this EXCEPT !.mParameter = r.items],
                   LIBSEDML_OPERATION_SUCCESS, NULL)

\* SedComputeChange::getNumParameters
getNumParameters(this) == SedListOf_size(this.mParameter)

\* A faulty createParameter: the new parameter is stored among the variables.
createParameter_intoVariables(hp, this) ==
    LET temp == New(hp)
    IN Result([hp EXCEPT ![temp] = SedParameter],
              [this EXCEPT !.mVariable = SedListOf_appendAndOwn(this.mVariable, temp)],
              "", temp)

\* SedComputeChange::createParameter
createParameter(hp, this) ==
    LET temp == New(hp)
    IN Result([hp EXCEPT ![temp] = SedParameter],
              [this EXCEPT !.mParameter = SedListOf_appendAndOwn(this.mParameter, temp)],
              "", temp)

\* -------------------------------------------------------------- SedPlot2D
\* SedPlot2D::SedPlot2D(level, version) and (SedNamespaces*)
SedPlot2D_new == [kind |-> "SedPlot2D", mCurve |-> <<>>]

\* SedPlot2D::SedPlot2D(const SedPlot2D& orig), orig not null
SedPlot2D_copy(hp, orig) ==
    LET c == SedListOf_assign(hp, <<>>, orig.mCurve)
    IN Result(c.heap, [kind |-> "SedPlot2D", mCurve |-> c.items], "", NULL)

\* SedPlot2D::operator=(const SedPlot2D& rhs); self is &rhs == this
SedPlot2D_assign(hp, this, rhs, self) ==
    IF self THEN Result(hp, this, "", NULL)
    ELSE LET c == SedListOf_assign(hp, this.mCurve, rhs.mCurve)
         IN Result(c.heap, [this EXCEPT !.mCurve = c.items], "", NULL)

\* SedPlot2D::clone
SedPlot2D_clone(hp, this) == SedPlot2D_copy(hp, this)

\* SedPlot2D::~SedPlot2D: the body is empty; the member mCurve is destroyed.
SedPlot2D_dtor(hp, this) == SedListOf_dtor(hp, this.mCurve)

\* ------------------------------------------------------------ null sources
\* What a copy constructor or an assignment throws.
SedConstructorException == "SedConstructorException"

\* An operation left by an exception or a fault: what names it, read is the
\* set of the parts of the source read before it.
Throw(hp, this, what, read) ==
    [heap |-> hp, this |-> this, ret |-> "", obj |-> NULL, thrown |-> what, read |-> read]

Thrown(r) == "thrown" \in DOMAIN r

\* What reading through a null reference may do: the read is undefined, it
\* may return or fault.
UndefinedRead == {"returns", "SIGSEGV"}

\* A null pointer passed where a wrapper takes const char * sid.
NullString == "(null)"

\* What std::string(const char *) does with a null pointer, the conversion a
\* wrapper makes to call a method taking const std::string&: it is undefined,
\* the library throws std::logic_error or faults reading the string.
UndefinedString == {"std::logic_error", "SIGSEGV"}

\* SedChange(orig) and SedOutput(orig), the copy constructors of the
\* superclasses: they read the superclass part of orig; ub is what the read
\* does when orig is a null reference (NoNode).
SedBase_copy(part, orig, ub) ==
    [read |-> {part}, fault |-> IF orig = NoNode THEN ub ELSE "returns"]

\* SedComputeChange::SedComputeChange(const SedComputeChange& orig), orig any
\* reference: the initializer SedChange(orig) runs, then the body tests
\* &orig == NULL and throws, or copies the members.
SedComputeChange_copyCtor(hp, orig, ub) ==
    LET base == SedBase_copy("SedChange", orig, ub)
    IN IF base.fault # "returns" THEN Throw(hp, NoNode, base.fault, base.read)
       ELSE IF orig = NoNode THEN Throw(hp, NoNode, SedConstructorException, base.read)
       ELSE SedComputeChange_copy(hp, orig)

\* SedComputeChange::operator=(const SedComputeChange& rhs), rhs any
\* reference: &rhs == NULL is tested first.
SedComputeChange_assignOp(hp, this, rhs, self) ==
    IF rhs = NoNode THEN Throw(hp, this, SedConstructorException, {})
    ELSE SedComputeChange_assign(hp, this, rhs, self)

\* SedPlot2D::SedPlot2D(const SedPlot2D& orig), orig any reference
SedPlot2D_copyCtor(hp, orig, ub) ==
    LET base == SedBase_copy("SedOutput", orig, ub)
    IN IF base.fault # "returns" THEN Throw(hp, NoNode, base.fault, base.read)
       ELSE IF orig = NoNode THEN Throw(hp, NoNode, SedConstructorException, base.read)
       ELSE SedPlot2D_copy(hp, orig)

\* SedPlot2D::operator=(const SedPlot2D& rhs), rhs any reference
SedPlot2D_assignOp(hp, this, rhs, self) ==
    IF rhs = NoNode THEN Throw(hp, this, SedConstructorException, {})
    ELSE SedPlot2D_assign(hp, this, rhs, self)

\* SedPlot2D::removeCurve(unsigned int n)
removeCurve(hp, this, n) ==
    LET r == SedListOf_remove(this.mCurve, n)
    IN Result(hp, [this EXCEPT !.mCurve = r.items], "", r.obj)

\* SedPlot2D::removeCurve(const std::string& sid)
removeCurveById(hp, this, sid) ==
    LET r == SedListOf_removeById(hp, this.mCurve, sid)
    IN Result(hp, [this EXCEPT !.mCurve = r.items], "", r.obj)

\* SedPlot2D::getCurve(unsigned int n)
getCurve(hp, this, n) == Result(hp, this, "", SedListOf_get(this.mCurve, n))

\* SedPlot2D::getCurve(const std::string& sid)
getCurveById(hp, this, sid) ==
    Result(hp, this, "", SedListOf_getById(hp, this.mCurve, sid))

\* SedPlot2D::addCurve
addCurve(hp, this, sc) ==
    IF sc = NULL THEN Result(hp, this, LIBSEDML_INVALID_ATTRIBUTE_VALUE, NULL)
    ELSE LET r == SedListOf_append(hp, this.mCurve, sc)
         IN Result(r.heap, [this EXCEPT !.mCurve = r.items],
                   LIBSEDML_OPERATION_SUCCESS, NULL)

\* SedPlot2D::getNumCurves
getNumCurves(this) == SedListOf_size(this.mCurve)

\* SedPlot2D::createCurve
createCurve(hp, this) ==
    LET temp == New(hp)
    IN Result([hp EXCEPT ![temp] = SedCurve],
              [this EXCEPT !.mCurve = SedListOf_appendAndOwn(this.mCurve, temp)],
              "", temp)

\* ------------------------------------------------------- reading, writing
\* The children of an element in a stream: a collection wrapper with the
\* elements it holds, or a math element with its tree.
Wrapper(name, items) == [name |-> name, items |-> items, tree |-> NoTree]

\* writeMathML: the math element of a tree.
writeMathML(o) == [name |-> "math", items |-> <<>>, tree |-> [fn |-> o.fn, nargs |-> o.nargs]]

\* readMathML: a newly allocated tree, or NULL when the reader yields none.
readMathML(hp, tree) ==
    IF tree = NoTree THEN [heap |-> hp, obj |-> NULL]
    ELSE [heap |-> [hp EXCEPT ![New(hp)] = ASTNode(tree)], obj |-> New(hp)]

\* SedListOf::write: the wrapper, then each element in insertion order.
SedListOf_write(hp, name, items) == Wrapper(name, [i \in 1..Len(items) |-> hp[items[i]]])

\* SedListOf::read: one new element per child of the wrapper, in order.
RECURSIVE SedListOf_read(_, _, _)
SedListOf_read(hp, items, children) ==
    IF children = <<>> THEN [heap |-> hp, items |-> items]
    ELSE SedListOf_read([hp EXCEPT ![New(hp)] = Head(children)],
                        Append(items, New(hp)), Tail(children))

\* SedChange::writeElements and SedOutput::writeElements: what the superclass
\* writes, taken as one block.
SedChange_writeElements == <<[name |-> "SedChange", items |-> <<>>, tree |-> NoTree]>>

SedOutput_writeElements == <<[name |-> "SedOutput", items |-> <<>>, tree |-> NoTree]>>

\* A faulty writeElements: the wrappers are written whatever the counts.
SedComputeChange_writeElements_always(hp, this) ==
    SedChange_writeElements
    \o <<SedListOf_write(hp, "listOfVariables", this.mVariable)>>
    \o <<SedListOf_write(hp, "listOfParameters", this.mParameter)>>
    \o (IF this.mMath # NULL THEN <<writeMathML(hp[this.mMath])>> ELSE <<>>)

\* A faulty writeElements: the math is written before the collections.
SedComputeChange_writeElements_mathFirst(hp, this) ==
    SedChange_writeElements
    \o (IF this.mMath # NULL THEN <<writeMathML(hp[this.mMath])>> ELSE <<>>)
    \o (IF getNumVariables(this) > 0
        THEN <<SedListOf_write(hp, "listOfVariables", this.mVariable)>> ELSE <<>>)
    \o (IF getNumParameters(this) > 0
        THEN <<SedListOf_write(hp, "listOfParameters", this.mParameter)>> ELSE <<>>)

\* SedComputeChange::writeElements
SedComputeChange_writeElements(hp, this) ==
    SedChange_writeElements
    \o (IF getNumVariables(this) > 0
        THEN <<SedListOf_write(hp, "listOfVariables", this.mVariable)>> ELSE <<>>)
    \o (IF getNumParameters(this) > 0
        THEN <<SedListOf_write(hp, "listOfParameters", this.mParameter)>> ELSE <<>>)
    \o (IF this.mMath # NULL THEN <<writeMathML(hp[this.mMath])>> ELSE <<>>)

\* SedPlot2D::writeElements
SedPlot2D_writeElements(hp, this) ==
    SedOutput_writeElements
    \o (IF getNumCurves(this) > 0
        THEN <<SedListOf_write(hp, "listOfCurves", this.mCurve)>> ELSE <<>>)

\* A faulty createObject: the two collections are taken for each other.
SedComputeChange_createObject_swapped(name, base) ==
    IF name = "listOfParameters" THEN "mVariable"
    ELSE IF name = "listOfVariables" THEN "mParameter"
    ELSE base

\* A faulty createObject: what the superclass returned is dropped.
SedComputeChange_createObject_noBase(name, base) ==
    IF name = "listOfParameters" THEN "mParameter"
    ELSE IF name = "listOfVariables" THEN "mVariable"
    ELSE "NULL"

\* SedComputeChange::createObject; name is stream.peek().getName(), base is
\* what SedChange::createObject returned.  The result names the member.
SedComputeChange_createObject(name, base) ==
    IF name = "listOfParameters" THEN "mParameter"
    ELSE IF name = "listOfVariables" THEN "mVariable"
    ELSE base

\* SedPlot2D::createObject
SedPlot2D_createObject(name, base) ==
    IF name = "listOfCurves" THEN "mCurve" ELSE base

\* XMLInputStream::peek: the next token, which stays in the stream.
peek(stream) == Head(stream)

\* SedComputeChange::createObject(XMLInputStream& stream), stream not at its
\* end: the call as a whole, with the stream it leaves.
createObject(hp, this, stream, base) ==
    [heap |-> hp, this |-> this, stream |-> stream,
     obj |-> SedComputeChange_createObject(peek(stream).name, base)]

\* SedPlot2D::createObject(XMLInputStream& stream), stream not at its end
SedPlot2D_createObject_m(hp, this, stream, base) ==
    [heap |-> hp, this |-> this, stream |-> stream,
     obj |-> SedPlot2D_createObject(peek(stream).name, base)]

\* A faulty readOtherXML: the previous math is kept when the reader returns
\* no tree.
readOtherXML_keepOnFailure(hp, this, name, tree, base) ==
    IF name = "math" /\ tree # NoTree
    THEN LET m == readMathML(Delete(hp, this.mMath), tree)
         IN Result(m.heap, [this EXCEPT !.mMath = m.obj], TRUE \/ base, NULL)
    ELSE Result(hp, this, (name = "math") \/ base, NULL)

\* SedComputeChange::readOtherXML; name is stream.peek().getName(), tree is
\* what the MathML reader finds, base is what SedChange::readOtherXML returns.
readOtherXML(hp, this, name, tree, base) ==
    IF name = "math"
    THEN LET m == readMathML(Delete(hp, this.mMath), tree)
         IN Result(m.heap, [this EXCEPT !.mMath = m.obj], TRUE \/ base, NULL)
    ELSE Result(hp, this, FALSE \/ base, NULL)

\* What peek returns at the end of the children: the end tag of the element.
EndTag == [name |-> "", items |-> <<>>, tree |-> NoTree]

peekOrEnd(stream) == IF stream = <<>> THEN EndTag ELSE peek(stream)

\* SedChange::readOtherXML(stream): the superclass looks at the next token,
\* and consumes it when its name is one of tags, the names it recognizes.
\* at is the position of the next token among the children of the element;
\* offered is the position of the token it looked at, consumed tells who
\* consumed the token of which position.
SedChange_readOtherXML(stream, at, tags) ==
    IF peekOrEnd(stream).name \in tags
    THEN [read |-> TRUE, stream |-> Tail(stream), at |-> at + 1, offered |-> at,
          consumed |-> <<[by |-> "SedChange", at |-> at]>>]
    ELSE [read |-> FALSE, stream |-> stream, at |-> at, offered |-> at, consumed |-> <<>>]

\* A faulty readOtherXML: the superclass is not asked once math was read.
SedComputeChange_readOtherXML_shortCircuit(hp, this, stream, at, tags) ==
    LET tok == peekOrEnd(stream)
        base == SedChange_readOtherXML(stream, at, tags)
    IN IF tok.name = "math"
       THEN LET r == readOtherXML(hp, this, tok.name, tok.tree, FALSE)
            IN [heap |-> r.heap, this |-> r.this, ret |-> r.ret, stream |-> Tail(stream),
                at |-> at + 1, offered |-> <<at>>,
                consumed |-> <<[by |-> "readMathML", at |-> at]>>]
       ELSE [heap |-> hp, this |-> this, ret |-> base.read, stream |-> base.stream,
             at |-> base.at, offered |-> <<at, base.offered>>, consumed |-> base.consumed]

\* A faulty readOtherXML: the superclass is asked about the token the math
\* reader has consumed.
SedComputeChange_readOtherXML_sameToken(hp, this, stream, at, tags) ==
    LET tok == peekOrEnd(stream)
        base == SedChange_readOtherXML(stream, at, tags)
        r == readOtherXML(hp, this, tok.name, tok.tree, base.read)
    IN [heap |-> r.heap, this |-> r.this, ret |-> r.ret,
        stream |-> IF tok.name = "math" \/ base.read THEN Tail(stream) ELSE stream,
        at |-> IF tok.name = "math" \/ base.read THEN at + 1 ELSE at,
        offered |-> <<at, base.offered>>,
        consumed |-> (IF tok.name = "math" THEN <<[by |-> "readMathML", at |-> at]>>
                      ELSE <<>>) \o base.consumed]

\* SedComputeChange::readOtherXML(XMLInputStream& stream), the call as a
\* whole: the stream it leaves, offered, the positions of the tokens its own
\* test and then the superclass looked at, and who consumed which token.  readMathML consumes the math
\* element; the superclass is given the stream after it.
SedComputeChange_readOtherXML(hp, this, stream, at, tags) ==
    LET tok == peekOrEnd(stream)
        local == tok.name = "math"
        base == SedChange_readOtherXML(IF local THEN Tail(stream) ELSE stream,
                                       IF local THEN at + 1 ELSE at, tags)
        r == readOtherXML(hp, this, tok.name, tok.tree, base.read)
    IN [heap |-> r.heap, this |-> r.this, ret |-> r.ret, stream |-> base.stream,
        at |-> base.at, offered |-> <<at, base.offered>>,
        consumed |-> (IF local THEN <<[by |-> "readMathML", at |-> at]>> ELSE <<>>)
                     \o base.consumed]

\* SedBase::read, for a computeChange: each child goes to the collection
\* createObject names, and to readOtherXML when it names none.
RECURSIVE SedComputeChange_read(_, _, _)
SedComputeChange_read(hp, this, stream) ==
    IF stream = <<>> THEN Result(hp, this, "", NULL)
    ELSE LET tok == Head(stream)
             object == SedComputeChange_createObject(tok.name, "NULL")
         IN IF object = "mVariable"
            THEN LET r == SedListOf_read(hp, this.mVariable, tok.items)
                 IN SedComputeChange_read(r.heap, [this EXCEPT !.mVariable = r.items],
                                          Tail(stream))
            ELSE IF object = "mParameter"
            THEN LET r == SedListOf_read(hp, this.mParameter, tok.items)
                 IN SedComputeChange_read(r.heap, [this EXCEPT !.mParameter = r.items],
                                          Tail(stream))
            ELSE LET r == readOtherXML(hp, this, tok.name, tok.tree, FALSE)
                 IN SedComputeChange_read(r.heap, r.this, Tail(stream))

\* SedBase::read, for a plot2D.
RECURSIVE SedPlot2D_read(_, _, _)
SedPlot2D_read(hp, this, stream) ==
    IF stream = <<>> THEN Result(hp, this, "", NULL)
    ELSE LET tok == Head(stream)
             object == SedPlot2D_createObject(tok.name, "NULL")
         IN IF object = "mCurve"
            THEN LET r == SedListOf_read(hp, this.mCurve, tok.items)
                 IN SedPlot2D_read(r.heap, [this EXCEPT !.mCurve = r.items], Tail(stream))
            ELSE SedPlot2D_read(hp, this, Tail(stream))

\* ----------------------------------------------------------- parent links
\* The parent link of a collection no node has been connected to, and the
\* links of a handle without a node.
NoParent == ""

NoLinks == [mNone |-> NoParent]

\* A faulty connectToChild: the parameters are not connected.
connectToChild_variablesOnly(links, this) == [links EXCEPT !.mVariable = this]

\* SedComputeChange::connectToChild: mVariable.connectToParent(this) and
\* mParameter.connectToParent(this); this is the handle of the node.
connectToChild(links, this) == [links EXCEPT !.mVariable = this, !.mParameter = this]

\* SedPlot2D::connectToChild
SedPlot2D_connectToChild(links, this) == [links EXCEPT !.mCurve = this]

\* The links after SedComputeChange(level, version) and (SedNamespaces*):
\* the members are constructed without a parent, then connectToChild().
SedComputeChange_new_links(this) ==
    connectToChild([mVariable |-> NoParent, mParameter |-> NoParent], this)

\* The links after the copy constructor: the members are assigned from
\* those of orig, links and all, then connectToChild().
SedComputeChange_copy_links(orig, this) == connectToChild(orig, this)

\* The links after operator=: as they were for a self-assignment, else the
\* members are assigned from those of rhs, then connectToChild().
SedComputeChange_assign_links(links, rhs, self, this) ==
    IF self THEN links ELSE connectToChild(rhs, this)

SedPlot2D_new_links(this) == SedPlot2D_connectToChild([mCurve |-> NoParent], this)

SedPlot2D_copy_links(orig, this) == SedPlot2D_connectToChild(orig, this)

SedPlot2D_assign_links(links, rhs, self, this) ==
    IF self THEN links ELSE SedPlot2D_connectToChild(rhs, this)

\* ------------------------------------------------------------ namespaces
\* The level and version a constructor takes when none is given.
SEDML_DEFAULT_LEVEL == 1

SEDML_DEFAULT_VERSION == 1

\* SedNamespaces::SedNamespaces(level, version): the bundle of a level and a
\* version, which fix the namespace URI.
SedNamespaces(level, version) == [level |-> level, version |-> version]

\* The bundle a node holds after SedComputeChange(level, version) or
\* SedPlot2D(level, version): setSedNamespacesAndOwn(new SedNamespaces(level,
\* version)).
setSedNamespacesAndOwn(level, version) == SedNamespaces(level, version)

\* The bundle of the child that createVariable, createParameter and
\* createCurve make in a node holding the bundle sedns: the child is made by
\* new SedVariable(), new SedParameter(), new SedCurve(), with no argument.
createVariable_namespaces(sedns) == SedNamespaces(SEDML_DEFAULT_LEVEL, SEDML_DEFAULT_VERSION)

createParameter_namespaces(sedns) == SedNamespaces(SEDML_DEFAULT_LEVEL, SEDML_DEFAULT_VERSION)

createCurve_namespaces(sedns) == SedNamespaces(SEDML_DEFAULT_LEVEL, SEDML_DEFAULT_VERSION)

\* ------------------------------------------------------ required fields
\* SedComputeChange::hasRequiredAttributes; base is what
\* SedChange::hasRequiredAttributes returns.
hasRequiredAttributes(this, base) == base

\* SedComputeChange::hasRequiredElements; base is what
\* SedChange::hasRequiredElements returns.
hasRequiredElements(this, base) == base

\* SedPlot2D::hasRequiredAttributes; base is what
\* SedOutput::hasRequiredAttributes returns.
SedPlot2D_hasRequiredAttributes_m(this, base) == base

\* SedPlot2D::hasRequiredElements; base is what
\* SedOutput::hasRequiredElements returns.
SedPlot2D_hasRequiredElements_m(this, base) == base

\* --------------------------------------------------------------- C linkage
\* The values of the return codes (operationReturnValues.h); the wrappers of
\* the adds name the code of libsbml, which has the same value.
LIBSBML_INVALID_OBJECT == "LIBSBML_INVALID_OBJECT"

Value(code) ==
    IF code = LIBSEDML_OPERATION_SUCCESS THEN 0
    ELSE IF code = LIBSEDML_INVALID_ATTRIBUTE_VALUE THEN 0 - 4
    ELSE IF code = LIBSEDML_INVALID_OBJECT THEN 0 - 5
    ELSE IF code = LIBSBML_INVALID_OBJECT THEN 0 - 5
    ELSE 1

SEDML_INT_MAX == 2147483647

\* The wrappers take the node behind a handle, NoNode for a null handle, and
\* return as the methods do; ret is an int or unsigned int result.
\* The levels and versions a caller may pass, valid or not.
Levels == 0..2

SedComputeChange_create(hp, level, version) == Result(hp, SedComputeChange_new, "", NULL)

SedComputeChange_free(hp, scc) ==
    IF scc # NoNode THEN Result(SedComputeChange_dtor(hp, scc), NoNode, "", NULL)
    ELSE Result(hp, scc, "", NULL)

\* A faulty wrapper: the handle is not tested, a null one is copied.
SedComputeChange_clone_C_unguarded(hp, scc) ==
    SedComputeChange_copyCtor(hp, scc, "returns")

SedComputeChange_clone_C(hp, scc) ==
    IF scc # NoNode THEN SedComputeChange_clone(hp, scc) ELSE Result(hp, scc, "", NULL)

SedComputeChange_getMath(hp, scc) ==
    IF scc = NoNode THEN Result(hp, scc, "", NULL) ELSE Result(hp, scc, "", scc.mMath)

SedComputeChange_isSetMath(hp, scc) ==
    Result(hp, scc, IF scc # NoNode THEN (IF scc.mMath # NULL THEN 1 ELSE 0) ELSE 0, NULL)

SedComputeChange_setMath(hp, scc, math) ==
    IF scc # NoNode THEN setMath(hp, scc, math)
    ELSE Result(hp, scc, LIBSEDML_INVALID_OBJECT, NULL)

SedComputeChange_unsetMath(hp, scc) ==
    IF scc # NoNode THEN unsetMath(hp, scc)
    ELSE Result(hp, scc, LIBSEDML_INVALID_OBJECT, NULL)

\* A faulty wrapper: a null handle is answered with success.
SedComputeChange_addVariable_success(hp, scc, sv) ==
    IF scc # NoNode THEN addVariable(hp, scc, sv)
    ELSE Result(hp, scc, LIBSEDML_OPERATION_SUCCESS, NULL)

SedComputeChange_addVariable(hp, scc, sv) ==
    IF scc # NoNode THEN addVariable(hp, scc, sv)
    ELSE Result(hp, scc, LIBSBML_INVALID_OBJECT, NULL)

SedComputeChange_createVariable(hp, scc) ==
    IF scc # NoNode THEN createVariable(hp, scc) ELSE Result(hp, scc, "", NULL)

SedComputeChange_getVariable(hp, scc, n) ==
    IF scc # NoNode THEN getVariable(hp, scc, n) ELSE Result(hp, scc, "", NULL)

SedComputeChange_getVariableById(hp, scc, sid, ub) ==
    IF scc # NoNode
    THEN IF sid = NullString THEN Throw(hp, scc, ub, {}) ELSE getVariableById(hp, scc, sid)
    ELSE Result(hp, scc, "", NULL)

SedComputeChange_getNumVariables(hp, scc) ==
    Result(hp, scc, IF scc # NoNode THEN getNumVariables(scc) ELSE SEDML_INT_MAX, NULL)

SedComputeChange_removeVariable(hp, scc, n) ==
    IF scc # NoNode THEN removeVariable(hp, scc, n) ELSE Result(hp, scc, "", NULL)

SedComputeChange_removeVariableById(hp, scc, sid, ub) ==
    IF scc # NoNode
    THEN IF sid = NullString THEN Throw(hp, scc, ub, {}) ELSE removeVariableById(hp, scc, sid)
    ELSE Result(hp, scc, "", NULL)

SedComputeChange_addParameter(hp, scc, sp) ==
    IF scc # NoNode THEN addParameter(hp, scc, sp)
    ELSE Result(hp, scc, LIBSBML_INVALID_OBJECT, NULL)

SedComputeChange_createParameter(hp, scc) ==
    IF scc # NoNode THEN createParameter(hp, scc) ELSE Result(hp, scc, "", NULL)

SedComputeChange_getParameter(hp, scc, n) ==
    IF scc # NoNode THEN getParameter(hp, scc, n) ELSE Result(hp, scc, "", NULL)

SedComputeChange_getParameterById(hp, scc, sid, ub) ==
    IF scc # NoNode
    THEN IF sid = NullString THEN Throw(hp, scc, ub, {}) ELSE getParameterById(hp, scc, sid)
    ELSE Result(hp, scc, "", NULL)

SedComputeChange_getNumParameters(hp, scc) ==
    Result(hp, scc, IF scc # NoNode THEN getNumParameters(scc) ELSE SEDML_INT_MAX, NULL)

SedComputeChange_removeParameter(hp, scc, n) ==
    IF scc # NoNode THEN removeParameter(hp, scc, n) ELSE Result(hp, scc, "", NULL)

SedComputeChange_removeParameterById(hp, scc, sid, ub) ==
    IF scc # NoNode
    THEN IF sid = NullString THEN Throw(hp, scc, ub, {}) ELSE removeParameterById(hp, scc, sid)
    ELSE Result(hp, scc, "", NULL)

SedComputeChange_hasRequiredAttributes(hp, scc, base) ==
    Result(hp, scc, IF scc # NoNode
                    THEN (IF hasRequiredAttributes(scc, base) THEN 1 ELSE 0) ELSE 0, NULL)

SedComputeChange_hasRequiredElements(hp, scc, base) ==
    Result(hp, scc, IF scc # NoNode
                    THEN (IF hasRequiredElements(scc, base) THEN 1 ELSE 0) ELSE 0, NULL)

SedPlot2D_create(hp, level, version) == Result(hp, SedPlot2D_new, "", NULL)

SedPlot2D_free(hp, spd) ==
    IF spd # NoNode THEN Result(SedPlot2D_dtor(hp, spd), NoNode, "", NULL)
    ELSE Result(hp, spd, "", NULL)

SedPlot2D_clone_C(hp, spd) ==
    IF spd # NoNode THEN SedPlot2D_clone(hp, spd) ELSE Result(hp, spd, "", NULL)

SedPlot2D_addCurve(hp, spd, sc) ==
    IF spd # NoNode THEN addCurve(hp, spd, sc)
    ELSE Result(hp, spd, LIBSBML_INVALID_OBJECT, NULL)

SedPlot2D_createCurve(hp, spd) ==
    IF spd # NoNode THEN createCurve(hp, spd) ELSE Result(hp, spd, "", NULL)

SedPlot2D_getCurve(hp, spd, n) ==
    IF spd # NoNode THEN getCurve(hp, spd, n) ELSE Result(hp, spd, "", NULL)

SedPlot2D_getCurveById(hp, spd, sid, ub) ==
    IF spd # NoNode
    THEN IF sid = NullString THEN Throw(hp, spd, ub, {}) ELSE getCurveById(hp, spd, sid)
    ELSE Result(hp, spd, "", NULL)

SedPlot2D_getNumCurves(hp, spd) ==
    Result(hp, spd, IF spd # NoNode THEN getNumCurves(spd) ELSE SEDML_INT_MAX, NULL)

SedPlot2D_removeCurve(hp, spd, n) ==
    IF spd # NoNode THEN removeCurve(hp, spd, n) ELSE Result(hp, spd, "", NULL)

SedPlot2D_removeCurveById(hp, spd, sid, ub) ==
    IF spd # NoNode
    THEN IF sid = NullString THEN Throw(hp, spd, ub, {}) ELSE removeCurveById(hp, spd, sid)
    ELSE Result(hp, spd, "", NULL)

SedPlot2D_hasRequiredAttributes(hp, spd, base) ==
    Result(hp, spd, IF spd # NoNode
                    THEN (IF SedPlot2D_hasRequiredAttributes_m(spd, base) THEN 1 ELSE 0)
                    ELSE 0, NULL)

SedPlot2D_hasRequiredElements(hp, spd, base) ==
    Result(hp, spd, IF spd # NoNode
                    THEN (IF SedPlot2D_hasRequiredElements_m(spd, base) THEN 1 ELSE 0)
                    ELSE 0, NULL)

\* ---------------------------------------------------------------- SedError
\* SedErrorCode_t: the first, two more and the last of the codes with a
\* message, and the upper bound of the codes.
UnknownError == 10000

NotUTF8 == 10101

L3NotSupported == 99998

\* A faulty bound: the upper bound itself is taken for a code of the table.
SedCodesUpperBound_inclusive == 99999 + 1

SedCodesUpperBound == 99999

\* SedErrorSeverity_t and SedErrorCategory_t, the values used here.
Severities == {"LIBSEDML_SEV_ERROR", "LIBSEDML_SEV_FATAL", "LIBSEDML_SEV_WARNING"}

Categories == {"LIBSEDML_CAT_INTERNAL", "LIBSEDML_CAT_SEDML"}

\* A text as the sequence of its parts; the empty string has none.
Text(str) == IF str = "" THEN <<>> ELSE <<str>>

\* The table of the predefined errors: the message is the one the
\* enumeration gives the code; a code without one of its own is reported as
\* the unknown error.
errorTable(code) ==
    IF code = NotUTF8
    THEN [message |-> "File does not use UTF-8 encoding.",
          severity |-> "LIBSEDML_SEV_ERROR", category |-> "LIBSEDML_CAT_SEDML"]
    ELSE IF code = L3NotSupported
    THEN [message |-> "Sed Level 3 is not yet supported.",
          severity |-> "LIBSEDML_SEV_ERROR", category |-> "LIBSEDML_CAT_SEDML"]
    ELSE [message |-> "Encountered unknown internal libSed error.",
          severity |-> "LIBSEDML_SEV_FATAL", category |-> "LIBSEDML_CAT_INTERNAL"]

\* SedError::SedError(errorId, level, version, details, line, column,
\* severity, category): a code of the table takes the message of the table,
\* with the details appended, and its severity and category; another code
\* takes what the caller gave.
SedError_new(errorId, details, severity, category) ==
    IF errorId < SedCodesUpperBound
    THEN [errorId |-> errorId,
          message |-> Text(errorTable(errorId).message) \o Text(details),
          severity |-> errorTable(errorId).severity,
          category |-> errorTable(errorId).category]
    ELSE [errorId |-> errorId, message |-> Text(details),
          severity |-> severity, category |-> category]

\* ---------------------------------------------------------------- state
Init ==
    /\ heap = [a \in Addr |-> Free]
    /\ node = [h \in Handles |-> NoNode]
    /\ caller = {}
    /\ log = <<>>
    /\ parent = [h \in Handles |-> NoLinks]

\* The heap has room for k more objects.
Room(hp, k) == Cardinality(FreeAddrs(hp)) >= k

IsChange(h) == node[h].kind = "SedComputeChange"

IsPlot(h) == node[h].kind = "SedPlot2D"

\* The child elements a node owns through its collections.
Stored(n) ==
    IF n.kind = "SedComputeChange" THEN Range(n.mVariable) \cup Range(n.mParameter)
    ELSE IF n.kind = "SedPlot2D" THEN Range(n.mCurve)
    ELSE {}

\* The math a node owns.
Math(n) == IF n.kind = "SedComputeChange" /\ n.mMath # NULL THEN {n.mMath} ELSE {}

\* The pointers of a type a caller can pass: to objects it owns and to objects
\* it reached through an accessor of a node (getVariable, getMath, ...).
Reachable(t) ==
    {a \in Live(heap, t) :
        \/ a \in caller
        \/ \E h \in Handles : a \in Stored(node[h]) \cup Math(node[h])}

\* The classes of child element and of tree a node of a class works with.
TypesOf(k) ==
    IF k = "SedComputeChange" THEN {"SedVariable", "SedParameter", "ASTNode"}
    ELSE {"SedCurve"}

\* The caller works with nodes of one class at a time, and with the objects
\* that class takes: objects of the two classes never meet.
InPlay(k) ==
    /\ \A h \in Handles : node[h].kind \in {"none", k}
    /\ \A a \in caller : heap[a].type \in TypesOf(k)

\* ------------------------------------------------------- address renaming
\* An address is an identity and nothing else: two states that differ by a
\* renaming of addresses are the same state of the program.  Every step ends
\* by renaming the addresses to their order of first reference (the nodes'
\* pointers in handle order, then the caller's objects, then the unreferenced
\* objects), which keeps one representative of each class of states.

\* The pointers a node holds, in member order.
Pointers(n) ==
    IF n.kind = "SedComputeChange"
    THEN n.mVariable \o n.mParameter \o (IF n.mMath = NULL THEN <<>> ELSE <<n.mMath>>)
    ELSE IF n.kind = "SedPlot2D" THEN n.mCurve
    ELSE <<>>

\* The addresses of a set, in ascending order.
Ascending(S) == SelectSeq([i \in Addr |-> i], LAMBDA i : i \in S)

\* The sequence without its repetitions, first occurrences kept.
Distinct(seq) ==
    IF Cardinality(Range(seq)) = Len(seq) THEN seq
    ELSE SelectSeq([i \in 1..Len(seq) |-> IF \E j \in 1..(i - 1) : seq[j] = seq[i]
                                          THEN NULL ELSE seq[i]],
                   LAMBDA x : x # NULL)

\* The addresses referenced, then the live addresses nothing references.
WithUnreferenced(hp, refs) ==
    refs \o Ascending({a \in Addr : hp[a] # Free /\ a \notin Range(refs)})

\* Every address in use, in order of first reference.
Order(hp, nd, cl) ==
    WithUnreferenced(hp, Distinct(Pointers(nd[HandleSeq[1]]) \o Pointers(nd[HandleSeq[2]])
                                      \o Ascending(cl)))

\* The new name of address a: its place in the order.
Rename(o, a) == IF a = NULL THEN NULL ELSE CHOOSE i \in 1..Len(o) : o[i] = a

RenameSeq(o, items) == [i \in 1..Len(items) |-> Rename(o, items[i])]

RenameNode(o, n) ==
    IF n.kind = "SedComputeChange"
    THEN [n EXCEPT !.mVariable = RenameSeq(o, n.mVariable),
                   !.mParameter = RenameSeq(o, n.mParameter),
                   !.mMath = Rename(o, n.mMath)]
    ELSE IF n.kind = "SedPlot2D" THEN [n EXCEPT !.mCurve = RenameSeq(o, n.mCurve)]
    ELSE n

Renamed(hp, nd, cl, o) ==
    /\ heap' = [i \in Addr |-> IF i <= Len(o) THEN hp[o[i]] ELSE Free]
    /\ node' = [h \in Handles |-> RenameNode(o, nd[h])]
    /\ caller' = {Rename(o, a) : a \in cl}
    /\ log' = log

\* The state after a step that leaves the heap hp, the nodes nd and the
\* caller's objects cl.  A step that changes nothing needs no renaming.
StepLinks(hp, nd, cl, pl) ==
    /\ parent' = pl
    /\ IF hp = heap /\ nd = node /\ cl = caller THEN UNCHANGED <<heap, node, caller, log>>
       ELSE Renamed(hp, nd, cl, Order(hp, nd, cl))

\* A step that leaves the parent links as they are.
Step(hp, nd, cl) == StepLinks(hp, nd, cl, parent)

\* A method's effect on the heap and on the node behind h; cl are the
\* caller's objects after it.
Do(h, r, cl) == Step(r.heap, [node EXCEPT ![h] = r.this], cl)

\* The effect of a constructor, a copy or an assignment on the node behind
\* h, which sets the parent links of its collections to links.
DoLinks(h, r, cl, links) ==
    StepLinks(r.heap, [node EXCEPT ![h] = r.this], cl, [parent EXCEPT ![h] = links])

\* ------------------------------------------------------ the caller's own
\* The caller holds one object of its own at a time: it takes a new one, or
\* the element a remove returns, with its hands free.
HandFree == caller = {}

\* The caller constructs a child element of its own.
NewElement(t) ==
    /\ Room(heap, 1)
    /\ HandFree
    /\ \E k \in {"SedComputeChange", "SedPlot2D"} : InPlay(k) /\ t \in TypesOf(k)
    /\ Step([heap EXCEPT ![New(heap)] = [type |-> t, id |-> UnsetId]], node,
            caller \cup {New(heap)})

\* The caller builds a MathML tree of its own.
NewASTNode(tree) ==
    /\ Room(heap, 1)
    /\ HandFree
    /\ InPlay("SedComputeChange")
    /\ Step([heap EXCEPT ![New(heap)] = ASTNode(tree)], node, caller \cup {New(heap)})

\* The caller sets the identifier of an element it owns or has reached.
SetId(a, id) ==
    /\ heap[a].type \in ElementTypes
    /\ a \in Reachable(heap[a].type)
    /\ Step(setId(heap, a, id), node, caller)

\* The caller destroys an object it owns.
DeleteOwn(a) ==
    /\ a \in caller
    /\ Step(Delete(heap, a), node, caller \ {a})

\* ------------------------------------------- construction and destruction
Construct_SedComputeChange(h) ==
    /\ node[h] = NoNode
    /\ InPlay("SedComputeChange")
    /\ DoLinks(h, Result(heap, SedComputeChange_new, "", NULL), caller,
               SedComputeChange_new_links(h))

Construct_SedPlot2D(h) ==
    /\ node[h] = NoNode
    /\ InPlay("SedPlot2D")
    /\ DoLinks(h, Result(heap, SedPlot2D_new, "", NULL), caller, SedPlot2D_new_links(h))

\* Objects a copy of n allocates.
CopySize(n) ==
    IF n.kind = "SedComputeChange"
    THEN Len(n.mVariable) + Len(n.mParameter) + (IF n.mMath # NULL THEN 1 ELSE 0)
    ELSE Len(n.mCurve)

\* c = h->clone()
Clone(h, c) ==
    /\ node[h] # NoNode
    /\ node[c] = NoNode
    /\ Room(heap, CopySize(node[h]))
    /\ DoLinks(c, IF IsChange(h) THEN SedComputeChange_clone(heap, node[h])
                  ELSE SedPlot2D_clone(heap, node[h]), caller,
               IF IsChange(h) THEN SedComputeChange_copy_links(parent[h], c)
               ELSE SedPlot2D_copy_links(parent[h], c))

\* *h = *g
Assign(h, g) ==
    /\ node[h] # NoNode
    /\ node[g].kind = node[h].kind
    /\ h = g \/ Room(heap, CopySize(node[g]))
    /\ DoLinks(h, IF IsChange(h) THEN SedComputeChange_assign(heap, node[h], node[g], h = g)
                  ELSE SedPlot2D_assign(heap, node[h], node[g], h = g), caller,
               IF IsChange(h) THEN SedComputeChange_assign_links(parent[h], parent[g], h = g, h)
               ELSE SedPlot2D_assign_links(parent[h], parent[g], h = g, h))

\* delete h
Destroy(h) ==
    /\ node[h] # NoNode
    /\ StepLinks(IF IsChange(h) THEN SedComputeChange_dtor(heap, node[h])
                 ELSE SedPlot2D_dtor(heap, node[h]),
                 [node EXCEPT ![h] = NoNode], caller, [parent EXCEPT ![h] = NoLinks])

\* ---------------------------------------------------------------- math
\* A tree argument of setMath: NULL, or a tree with room for its copy.
MathArg(h, math) ==
    \/ math = NULL
    \/ math \in Reachable("ASTNode") /\ (Room(heap, 1) \/ node[h].mMath # NULL)

Call_setMath(h, math) ==
    /\ IsChange(h) /\ MathArg(h, math)
    /\ Do(h, setMath(heap, node[h], math), caller)

Call_unsetMath(h) ==
    /\ IsChange(h)
    /\ Do(h, unsetMath(heap, node[h]), caller)

\* -------------------------------------------------------- the collections
\* A pointer argument of an add: NULL, or an element of the class with room
\* for its copy.
AddArg(a, t) == a = NULL \/ (a \in Reachable(t) /\ Room(heap, 1))

\* A removed element is handed to the caller.
Handed(r) == IF r.obj # NULL THEN caller \cup {r.obj} ELSE caller

Call_addVariable(h, sv) ==
    /\ IsChange(h) /\ AddArg(sv, "SedVariable")
    /\ Do(h, addVariable(heap, node[h], sv), caller)

Call_addParameter(h, sp) ==
    /\ IsChange(h) /\ AddArg(sp, "SedParameter")
    /\ Do(h, addParameter(heap, node[h], sp), caller)

Call_addCurve(h, sc) ==
    /\ IsPlot(h) /\ AddArg(sc, "SedCurve")
    /\ Do(h, addCurve(heap, node[h], sc), caller)

Call_createVariable(h) ==
    /\ IsChange(h) /\ Room(heap, 1)
    /\ Do(h, createVariable(heap, node[h]), caller)

Call_createParameter(h) ==
    /\ IsChange(h) /\ Room(heap, 1)
    /\ Do(h, createParameter(heap, node[h]), caller)

Call_createCurve(h) ==
    /\ IsPlot(h) /\ Room(heap, 1)
    /\ Do(h, createCurve(heap, node[h]), caller)

Call_getVariable(h, n) ==
    IsChange(h) /\ n <= getNumVariables(node[h]) /\ Do(h, getVariable(heap, node[h], n), caller)

Call_getVariableById(h, sid) ==
    IsChange(h) /\ Do(h, getVariableById(heap, node[h], sid), caller)

Call_removeVariable(h, n) ==
    /\ IsChange(h) /\ HandFree /\ n <= getNumVariables(node[h])
    /\ Do(h, removeVariable(heap, node[h], n), Handed(removeVariable(heap, node[h], n)))

Call_removeVariableById(h, sid) ==
    /\ IsChange(h) /\ HandFree
    /\ Do(h, removeVariableById(heap, node[h], sid),
          Handed(removeVariableById(heap, node[h], sid)))

Call_getParameter(h, n) ==
    IsChange(h) /\ n <= getNumParameters(node[h]) /\ Do(h, getParameter(heap, node[h], n), caller)

Call_getParameterById(h, sid) ==
    IsChange(h) /\ Do(h, getParameterById(heap, node[h], sid), caller)

Call_removeParameter(h, n) ==
    /\ IsChange(h) /\ HandFree /\ n <= getNumParameters(node[h])
    /\ Do(h, removeParameter(heap, node[h], n), Handed(removeParameter(heap, node[h], n)))

Call_removeParameterById(h, sid) ==
    /\ IsChange(h) /\ HandFree
    /\ Do(h, removeParameterById(heap, node[h], sid),
          Handed(removeParameterById(heap, node[h], sid)))

Call_getCurve(h, n) ==
    IsPlot(h) /\ n <= getNumCurves(node[h]) /\ Do(h, getCurve(heap, node[h], n), caller)

Call_getCurveById(h, sid) ==
    IsPlot(h) /\ Do(h, getCurveById(heap, node[h], sid), caller)

Call_removeCurve(h, n) ==
    /\ IsPlot(h) /\ HandFree /\ n <= getNumCurves(node[h])
    /\ Do(h, removeCurve(heap, node[h], n), Handed(removeCurve(heap, node[h], n)))

Call_removeCurveById(h, sid) ==
    /\ IsPlot(h) /\ HandFree
    /\ Do(h, removeCurveById(heap, node[h], sid),
          Handed(removeCurveById(heap, node[h], sid)))

\* ------------------------------------------------------- reading, writing
\* The parser offers a child that is no collection to readOtherXML.
Call_readOtherXML(h, name, tree, base) ==
    /\ IsChange(h)
    /\ Room(heap, 1) \/ node[h].mMath # NULL \/ tree = NoTree \/ name # "math"
    /\ Do(h, readOtherXML(heap, node[h], name, tree, base), caller)

\* The node behind h is written, and the output is parsed into a new node c.
WriteAndRead(h, c) ==
    /\ node[h] # NoNode
    /\ node[c] = NoNode
    /\ Room(heap, CopySize(node[h]))
    /\ DoLinks(c, IF IsChange(h)
                  THEN SedComputeChange_read(heap, SedComputeChange_new,
                                             SedComputeChange_writeElements(heap, node[h]))
                  ELSE SedPlot2D_read(heap, SedPlot2D_new,
                                      SedPlot2D_writeElements(heap, node[h])),
               caller,
               IF IsChange(h) THEN SedComputeChange_new_links(c) ELSE SedPlot2D_new_links(c))

\* Index arguments: an index past the size behaves as the size itself, so the
\* calls take every position and the one past the last.
Indices == 0..MaxAddr

Next ==
    \/ \E t \in ElementTypes : NewElement(t)
    \/ \E tree \in Trees : NewASTNode(tree)
    \/ \E a \in Addr, id \in Ids : SetId(a, id)
    \/ \E a \in Addr : DeleteOwn(a)
    \/ \E h \in Handles : Construct_SedComputeChange(h)
    \/ \E h \in Handles : Construct_SedPlot2D(h)
    \/ \E h \in Handles, c \in Handles : Clone(h, c)
    \/ \E h \in Handles, g \in Handles : Assign(h, g)
    \/ \E h \in Handles : Destroy(h)
    \/ \E h \in Handles, math \in Addr \cup {NULL} : Call_setMath(h, math)
    \/ \E h \in Handles : Call_unsetMath(h)
    \/ \E h \in Handles, sv \in Addr \cup {NULL} : Call_addVariable(h, sv)
    \/ \E h \in Handles, sp \in Addr \cup {NULL} : Call_addParameter(h, sp)
    \/ \E h \in Handles, sc \in Addr \cup {NULL} : Call_addCurve(h, sc)
    \/ \E h \in Handles : Call_createVariable(h)
    \/ \E h \in Handles : Call_createParameter(h)
    \/ \E h \in Handles : Call_createCurve(h)
    \/ \E h \in Handles, n \in Indices : Call_getVariable(h, n)
    \/ \E h \in Handles, sid \in Ids : Call_getVariableById(h, sid)
    \/ \E h \in Handles, n \in Indices : Call_removeVariable(h, n)
    \/ \E h \in Handles, sid \in Ids : Call_removeVariableById(h, sid)
    \/ \E h \in Handles, n \in Indices : Call_getParameter(h, n)
    \/ \E h \in Handles, sid \in Ids : Call_getParameterById(h, sid)
    \/ \E h \in Handles, n \in Indices : Call_removeParameter(h, n)
    \/ \E h \in Handles, sid \in Ids : Call_removeParameterById(h, sid)
    \/ \E h \in Handles, n \in Indices : Call_getCurve(h, n)
    \/ \E h \in Handles, sid \in Ids : Call_getCurveById(h, sid)
    \/ \E h \in Handles, n \in Indices : Call_removeCurve(h, n)
    \/ \E h \in Handles, sid \in Ids : Call_removeCurveById(h, sid)
    \/ \E h \in Handles, name \in {"math", "notes"}, tree \in Trees \cup {NoTree},
          base \in BOOLEAN : Call_readOtherXML(h, name, tree, base)
    \/ \E h \in Handles, c \in Handles : WriteAndRead(h, c)

Spec == Init /\ [][Next]_vars

\* ------------------------------------------------------------- math only
\* The caller builds trees and nodes, and calls nothing on a node but setMath
\* and unsetMath until it destroys it.
MathNext ==
    \/ \E tree \in Trees : NewASTNode(tree)
    \/ \E a \in Addr : DeleteOwn(a)
    \/ \E h \in Handles : Construct_SedComputeChange(h)
    \/ \E h \in Handles : Destroy(h)
    \/ \E h \in Handles, math \in Addr \cup {NULL} : Call_setMath(h, math)
    \/ \E h \in Handles : Call_unsetMath(h)

MathSpec == Init /\ [][MathNext]_vars

\* ------------------------------------------------------------ diagnostics
\* The diagnostics a log holds at most.
MaxLog == 2

\* The codes a caller reports: of the XML layer, of the table, in the band of
\* the table without a message of its own, and the two codes that follow the
\* last code with a message: the upper bound and the one beyond.
ErrorIds ==
    {0, UnknownError, UnknownError + 1, NotUTF8, L3NotSupported,
     L3NotSupported + 1, L3NotSupported + 2}

Details == {"", "details"}

\* A diagnostic is constructed and logged.
LogError(errorId, details, severity, category) ==
    /\ Len(log) < MaxLog
    /\ log' = Append(log, [error |-> SedError_new(errorId, details, severity, category),
                           details |-> details, severity |-> severity,
                           category |-> category])
    /\ UNCHANGED <<heap, node, caller, parent>>

ErrorNext ==
    \E errorId \in ErrorIds, details \in Details,
       severity \in {"LIBSEDML_SEV_ERROR", "LIBSEDML_SEV_WARNING"},
       category \in Categories :
        LogError(errorId, details, severity, category)

ErrorSpec == Init /\ [][ErrorNext]_vars

\* ------------------------------------------------------------ properties
\* The memory a method is examined in: the heap of the state, with room for
\* every object the method may allocate.
mem == [a \in 1..(2 * MaxAddr) |-> IF a \in Addr THEN heap[a] ELSE Free]

\* The elements a collection holds, in order, by value.
Contents(hp, items) == [i \in 1..Len(items) |-> hp[items[i]]]

\* The tree behind a math pointer, by value.
Absent == [type |-> "absent"]

MathValue(hp, m) == IF m = NULL THEN Absent ELSE hp[m]

\* A node by value: what two structurally equal nodes have in common.
View(hp, n) ==
    IF n.kind = "SedComputeChange"
    THEN [kind |-> n.kind, mVariable |-> Contents(hp, n.mVariable),
          mParameter |-> Contents(hp, n.mParameter), mMath |-> MathValue(hp, n.mMath)]
    ELSE IF n.kind = "SedPlot2D"
    THEN [kind |-> n.kind, mCurve |-> Contents(hp, n.mCurve)]
    ELSE n

\* Every object a node owns.
Owned(n) == Stored(n) \cup Math(n)

\* Identifiers a caller may ask for: those in use and one no element carries.
QueryIds == Ids \cup {"z"}

Carries(hp, items, sid) == \E i \in 1..Len(items) : hp[items[i]].id = sid

\* ---- C1
\* The result of an add with a null argument.
NullAdd(r, this) == r = Result(mem, this, LIBSEDML_INVALID_ATTRIBUTE_VALUE, NULL)

\* C1: addVariable, addParameter and addCurve called with a null argument
\* return LIBSEDML_INVALID_ATTRIBUTE_VALUE and leave the node (the target
\* collection, the other collection, the math) and every object as they were.
C1_NullAddRejected ==
    \A h \in Handles :
        /\ IsChange(h) => /\ NullAdd(addVariable(mem, node[h], NULL), node[h])
                          /\ NullAdd(addParameter(mem, node[h], NULL), node[h])
        /\ IsPlot(h) => NullAdd(addCurve(mem, node[h], NULL), node[h])

\* A node with variables, parameters and math, on which addVariable(NULL) fails.
C1_Witness ==
    \E h \in Handles :
        /\ IsChange(h)
        /\ node[h].mVariable # <<>> /\ node[h].mParameter # <<>> /\ node[h].mMath # NULL
        /\ addVariable(mem, node[h], NULL).ret = LIBSEDML_INVALID_ATTRIBUTE_VALUE
        /\ addVariable(mem, node[h], NULL).this = node[h]

\* ---- C2
\* r is the result of adding x to the collection old, which is new afterwards.
Appended(r, old, new, x) ==
    /\ r.ret = LIBSEDML_OPERATION_SUCCESS
    /\ Len(new) = Len(old) + 1
    /\ r.heap[new[Len(new)]] = mem[x]
    /\ \A i \in 1..Len(old) : new[i] = old[i] /\ r.heap[new[i]] = mem[old[i]]

\* C2: an add with a non-null element x returns LIBSEDML_OPERATION_SUCCESS,
\* the collection is one longer, its last element equals x and every element
\* stored before is at its index, as it was.
C2_AddAppends ==
    \A h \in Handles :
        /\ IsChange(h) =>
            /\ \A x \in Reachable("SedVariable") :
                 Appended(addVariable(mem, node[h], x), node[h].mVariable,
                          addVariable(mem, node[h], x).this.mVariable, x)
            /\ \A x \in Reachable("SedParameter") :
                 Appended(addParameter(mem, node[h], x), node[h].mParameter,
                          addParameter(mem, node[h], x).this.mParameter, x)
        /\ IsPlot(h) =>
            \A x \in Reachable("SedCurve") :
                 Appended(addCurve(mem, node[h], x), node[h].mCurve,
                          addCurve(mem, node[h], x).this.mCurve, x)

\* After an add onto a non-empty collection: the last element equals the
\* caller's element, which carries an identifier the first does not.
C2_Witness ==
    \E h \in Handles, x \in caller :
        /\ IsChange(h) /\ Len(node[h].mVariable) = 2
        /\ heap[x].type = "SedVariable" /\ heap[x].id = "a"
        /\ heap[node[h].mVariable[2]] = heap[x]
        /\ heap[node[h].mVariable[1]].id = UnsetId
        /\ Len(addVariable(mem, node[h], x).this.mVariable) = 3

\* ---- C3
\* r is the result of adding x, new the collection afterwards: the element
\* stored is a new object, and the original is as it was.
StoredCopy(r, new, x) ==
    /\ new[Len(new)] # x
    /\ mem[new[Len(new)]] = Free
    /\ new[Len(new)] \notin caller
    /\ r.heap[x] = mem[x]

\* C3: an add stores a copy: the stored object is new, the original stays
\* with the caller as it was, no object of the caller is in a collection, so
\* that setting the identifier of the original or destroying it leaves every
\* node as it was, and setting the identifier of a stored element or
\* destroying the node leaves the caller's objects as they were.
C3_AddStoresCopy ==
    \A h \in Handles :
        /\ IsChange(h) =>
            /\ \A x \in Reachable("SedVariable") :
                 StoredCopy(addVariable(mem, node[h], x),
                            addVariable(mem, node[h], x).this.mVariable, x)
            /\ \A x \in Reachable("SedParameter") :
                 StoredCopy(addParameter(mem, node[h], x),
                            addParameter(mem, node[h], x).this.mParameter, x)
        /\ IsPlot(h) =>
            \A x \in Reachable("SedCurve") :
                 StoredCopy(addCurve(mem, node[h], x),
                            addCurve(mem, node[h], x).this.mCurve, x)
        /\ \A x \in caller :
            /\ x \notin Stored(node[h])
            /\ heap[x] # Free
            /\ View(Delete(heap, x), node[h]) = View(heap, node[h])
            /\ \A id \in Ids : heap[x].type \in ElementTypes =>
                 View(setId(heap, x, id), node[h]) = View(heap, node[h])
            /\ \A s \in Stored(node[h]), id \in Ids : setId(heap, s, id)[x] = heap[x]
            /\ IsChange(h) => SedComputeChange_dtor(heap, node[h])[x] = heap[x]
            /\ IsPlot(h) => SedPlot2D_dtor(heap, node[h])[x] = heap[x]

\* After an add and a change of the original: the caller's element carries
\* an identifier, the stored copy carries none.
C3_Witness ==
    \E h \in Handles, x \in caller :
        /\ IsChange(h) /\ Len(node[h].mVariable) = 1
        /\ heap[x].type = "SedVariable" /\ heap[x].id = "a"
        /\ heap[node[h].mVariable[1]].id = UnsetId
        /\ node[h].mVariable[1] # x

\* ---- C4
\* r is the result of a get: nothing has changed.
Untouched(r, this) == r.heap = mem /\ r.this = this

\* r is the result of a remove that found nothing.
NotRemoved(r, this) == r = Result(mem, this, "", NULL)

\* C4: a get or a remove returns null when the index is not below the size or
\* no stored element carries the identifier, and the node is then as it was;
\* a get leaves the node as it was in every case.
C4_NotFound ==
    \A h \in Handles :
        /\ IsChange(h) =>
            /\ \A n \in 0..(MaxAddr + 1) :
                /\ Untouched(getVariable(mem, node[h], n), node[h])
                /\ Untouched(getParameter(mem, node[h], n), node[h])
                /\ n >= getNumVariables(node[h]) =>
                     /\ getVariable(mem, node[h], n).obj = NULL
                     /\ NotRemoved(removeVariable(mem, node[h], n), node[h])
                /\ n >= getNumParameters(node[h]) =>
                     /\ getParameter(mem, node[h], n).obj = NULL
                     /\ NotRemoved(removeParameter(mem, node[h], n), node[h])
            /\ \A sid \in QueryIds :
                /\ Untouched(getVariableById(mem, node[h], sid), node[h])
                /\ Untouched(getParameterById(mem, node[h], sid), node[h])
                /\ ~Carries(mem, node[h].mVariable, sid) =>
                     /\ getVariableById(mem, node[h], sid).obj = NULL
                     /\ NotRemoved(removeVariableById(mem, node[h], sid), node[h])
                /\ ~Carries(mem, node[h].mParameter, sid) =>
                     /\ getParameterById(mem, node[h], sid).obj = NULL
                     /\ NotRemoved(removeParameterById(mem, node[h], sid), node[h])
        /\ IsPlot(h) =>
            /\ \A n \in 0..(MaxAddr + 1) :
                /\ Untouched(getCurve(mem, node[h], n), node[h])
                /\ n >= getNumCurves(node[h]) =>
                     /\ getCurve(mem, node[h], n).obj = NULL
                     /\ NotRemoved(removeCurve(mem, node[h], n), node[h])
            /\ \A sid \in QueryIds :
                /\ Untouched(getCurveById(mem, node[h], sid), node[h])
                /\ ~Carries(mem, node[h].mCurve, sid) =>
                     /\ getCurveById(mem, node[h], sid).obj = NULL
                     /\ NotRemoved(removeCurveById(mem, node[h], sid), node[h])

\* A collection of two elements, none carrying "a": an index past the end
\* and the identifier find nothing, the index below the size finds one.
C4_Witness ==
    \E h \in Handles :
        /\ IsChange(h) /\ Len(node[h].mVariable) = 2
        /\ ~Carries(heap, node[h].mVariable, "a")
        /\ removeVariable(mem, node[h], 2).obj = NULL
        /\ removeVariableById(mem, node[h], "a").obj = NULL
        /\ getVariable(mem, node[h], 1).obj # NULL

\* ---- C5
\* Positions (1-based) of the elements carrying sid.
Matches(hp, items, sid) == {i \in 1..Len(items) : hp[items[i]].id = sid}

Least(S) == CHOOSE i \in S : \A j \in S : i <= j

\* g is the result of get(sid) and r of remove(sid) on the collection old,
\* which is new afterwards: both designate the first match, and the
\* collection is one shorter.
SameFirstMatch(g, r, old, new, sid) ==
    /\ g.obj = old[Least(Matches(mem, old, sid))]
    /\ r.obj = g.obj
    /\ Len(new) = Len(old) - 1

\* C5 as stated: where an element carries id, get(id) and remove(id)
\* designate the same element, the first match; after remove(id) the size is
\* one less and a get(id) finds nothing.
C5_RemoveThenGetFindsNothing ==
    \A h \in Handles, sid \in Ids :
        /\ (IsChange(h) /\ Carries(mem, node[h].mVariable, sid)) =>
            /\ SameFirstMatch(getVariableById(mem, node[h], sid),
                              removeVariableById(mem, node[h], sid), node[h].mVariable,
                              removeVariableById(mem, node[h], sid).this.mVariable, sid)
            /\ getVariableById(mem, removeVariableById(mem, node[h], sid).this, sid).obj = NULL
        /\ (IsChange(h) /\ Carries(mem, node[h].mParameter, sid)) =>
            /\ SameFirstMatch(getParameterById(mem, node[h], sid),
                              removeParameterById(mem, node[h], sid), node[h].mParameter,
                              removeParameterById(mem, node[h], sid).this.mParameter, sid)
            /\ getParameterById(mem, removeParameterById(mem, node[h], sid).this, sid).obj = NULL
        /\ (IsPlot(h) /\ Carries(mem, node[h].mCurve, sid)) =>
            /\ SameFirstMatch(getCurveById(mem, node[h], sid),
                              removeCurveById(mem, node[h], sid), node[h].mCurve,
                              removeCurveById(mem, node[h], sid).this.mCurve, sid)
            /\ getCurveById(mem, removeCurveById(mem, node[h], sid).this, sid).obj = NULL

\* What a get(sid) finds after the first match has been removed from old:
\* the second match, or nothing when there is no second.
NextMatch(old, sid) ==
    IF Cardinality(Matches(mem, old, sid)) = 1 THEN NULL
    ELSE old[Least(Matches(mem, old, sid) \ {Least(Matches(mem, old, sid))})]

\* C5, amended: where an element carries id, get(id) and remove(id) designate
\* the same element, the first match; after remove(id) the size is one less
\* and a get(id) finds the next element carrying id, and nothing exactly when
\* the removed element was the only one carrying id.
C5_RemoveThenGetFindsNext ==
    \A h \in Handles, sid \in Ids :
        /\ (IsChange(h) /\ Carries(mem, node[h].mVariable, sid)) =>
            /\ SameFirstMatch(getVariableById(mem, node[h], sid),
                              removeVariableById(mem, node[h], sid), node[h].mVariable,
                              removeVariableById(mem, node[h], sid).this.mVariable, sid)
            /\ getVariableById(mem, removeVariableById(mem, node[h], sid).this, sid).obj
                 = NextMatch(node[h].mVariable, sid)
        /\ (IsChange(h) /\ Carries(mem, node[h].mParameter, sid)) =>
            /\ SameFirstMatch(getParameterById(mem, node[h], sid),
                              removeParameterById(mem, node[h], sid), node[h].mParameter,
                              removeParameterById(mem, node[h], sid).this.mParameter, sid)
            /\ getParameterById(mem, removeParameterById(mem, node[h], sid).this, sid).obj
                 = NextMatch(node[h].mParameter, sid)
        /\ (IsPlot(h) /\ Carries(mem, node[h].mCurve, sid)) =>
            /\ SameFirstMatch(getCurveById(mem, node[h], sid),
                              removeCurveById(mem, node[h], sid), node[h].mCurve,
                              removeCurveById(mem, node[h], sid).this.mCurve, sid)
            /\ getCurveById(mem, removeCurveById(mem, node[h], sid).this, sid).obj
                 = NextMatch(node[h].mCurve, sid)

\* A collection whose second and third elements carry "a": remove("a") takes
\* the second, and a get("a") afterwards finds the third.
C5_Witness ==
    \E h \in Handles :
        /\ IsChange(h) /\ Len(node[h].mVariable) = 3
        /\ Matches(heap, node[h].mVariable, "a") = {2, 3}
        /\ removeVariableById(mem, node[h], "a").obj = node[h].mVariable[2]
        /\ getVariableById(mem, removeVariableById(mem, node[h], "a").this, "a").obj
             = node[h].mVariable[3]

\* ---- C6
\* r is the result of remove(n) on the collection old of the node behind h,
\* which is new afterwards.
Detached(h, r, old, new, n) ==
    /\ r.obj = old[n + 1]
    /\ r.heap = mem
    /\ r.obj \notin Range(new)
    /\ \A g \in Handles : g # h => r.obj \notin Owned(node[g])
    /\ Handed(r) = caller \cup {r.obj}
    /\ Len(new) = Len(old) - 1
    /\ \A i \in 1..Len(new) : new[i] = IF i <= n THEN old[i] ELSE old[i + 1]

\* C6: remove(n) with n below the size returns the element at position n,
\* alive and as it was, held by no collection and by the caller; the
\* collection holds the other elements, as they were, in their order at the
\* positions 0..size-2.
C6_RemoveDetaches ==
    \A h \in Handles, n \in 0..MaxAddr :
        /\ (IsChange(h) /\ n < getNumVariables(node[h])) =>
             Detached(h, removeVariable(mem, node[h], n), node[h].mVariable,
                      removeVariable(mem, node[h], n).this.mVariable, n)
        /\ (IsChange(h) /\ n < getNumParameters(node[h])) =>
             Detached(h, removeParameter(mem, node[h], n), node[h].mParameter,
                      removeParameter(mem, node[h], n).this.mParameter, n)
        /\ (IsPlot(h) /\ n < getNumCurves(node[h])) =>
             Detached(h, removeCurve(mem, node[h], n), node[h].mCurve,
                      removeCurve(mem, node[h], n).this.mCurve, n)

\* A collection of three elements, the first carrying "a": remove(0) returns
\* it and leaves the second and the third, in this order.
C6_Witness ==
    \E h \in Handles :
        /\ IsChange(h) /\ Len(node[h].mVariable) = 3
        /\ Matches(heap, node[h].mVariable, "a") = {1}
        /\ removeVariable(mem, node[h], 0).obj = node[h].mVariable[1]
        /\ removeVariable(mem, node[h], 0).this.mVariable
             = <<node[h].mVariable[2], node[h].mVariable[3]>>

\* ---- C7
\* The trees a caller can pass that are not well-formed.
IllFormed == {m \in Reachable("ASTNode") : ~isWellFormedASTNode(heap[m])}

\* C7 as stated: setMath with a tree that is not well-formed returns
\* LIBSEDML_INVALID_OBJECT and leaves the node and every object as they were.
C7_IllFormedRejected ==
    \A h \in Handles, m \in IllFormed :
        IsChange(h) =>
            setMath(mem, node[h], m) = Result(mem, node[h], LIBSEDML_INVALID_OBJECT, NULL)

\* C7, amended: setMath with a tree that is not well-formed leaves the node
\* and every object as they were; it returns LIBSEDML_INVALID_OBJECT, unless
\* the tree is the one the node holds, when it returns
\* LIBSEDML_OPERATION_SUCCESS.
C7_IllFormedNotStored ==
    \A h \in Handles, m \in IllFormed :
        IsChange(h) =>
            setMath(mem, node[h], m) =
                Result(mem, node[h],
                       IF m = node[h].mMath THEN LIBSEDML_OPERATION_SUCCESS
                       ELSE LIBSEDML_INVALID_OBJECT,
                       NULL)

\* A node holding a tree that is not well-formed, and a caller holding
\* another: setMath succeeds with the first and fails with the second.
C7_Witness ==
    \E h \in Handles, m \in caller :
        /\ IsChange(h) /\ node[h].mMath \in IllFormed /\ m \in IllFormed
        /\ setMath(mem, node[h], node[h].mMath).ret = LIBSEDML_OPERATION_SUCCESS
        /\ setMath(mem, node[h], m).ret = LIBSEDML_INVALID_OBJECT

\* ---- C8
\* r is the result of a copy of the node src: the node made equals src by
\* value, and src is as it was.
EqualCopy(r, src) ==
    /\ View(r.heap, r.this) = View(mem, src)
    /\ View(r.heap, src) = View(mem, src)

\* C8: clone, copy construction and assignment from a node yield a node equal
\* to it by value: the same variables in the same order, the same parameters
\* (or curves) in the same order, and the same math or no math in both.
C8_CopyEqual ==
    \A h \in Handles :
        /\ IsChange(h) =>
            /\ EqualCopy(SedComputeChange_clone(mem, node[h]), node[h])
            /\ EqualCopy(SedComputeChange_copy(mem, node[h]), node[h])
            /\ \A g \in Handles : IsChange(g) =>
                 EqualCopy(SedComputeChange_assign(mem, node[g], node[h], g = h), node[h])
        /\ IsPlot(h) =>
            /\ EqualCopy(SedPlot2D_clone(mem, node[h]), node[h])
            /\ EqualCopy(SedPlot2D_copy(mem, node[h]), node[h])
            /\ \A g \in Handles : IsPlot(g) =>
                 EqualCopy(SedPlot2D_assign(mem, node[g], node[h], g = h), node[h])

\* A node with a variable carrying "a", a parameter and math is cloned, and
\* assigned to another node, which it changes.
C8_Witness ==
    \E h \in Handles, g \in Handles :
        /\ IsChange(h) /\ IsChange(g) /\ g # h
        /\ Carries(heap, node[h].mVariable, "a")
        /\ node[h].mParameter # <<>> /\ node[h].mMath # NULL
        /\ View(SedComputeChange_clone(mem, node[h]).heap,
                SedComputeChange_clone(mem, node[h]).this) = View(heap, node[h])
        /\ SedComputeChange_assign(mem, node[g], node[h], FALSE).this # node[g]

\* ---- C9
\* r is the result of an operation on the node behind h: every other node is
\* as it was, by value.
OthersKept(h, r) ==
    \A g \in Handles : g # h => View(r.heap, node[g]) = View(mem, node[g])

\* r is the result of a copy: every object the new node owns is a new one.
AllNew(r) == \A a \in Owned(r.this) : mem[a] = Free

\* C9: a clone shares no owned object with its original, and so do two nodes
\* at any time; an add, create, remove, setMath or unsetMath on one node, and
\* its destruction, leave every other node as it was.
C9_CloneIndependent ==
    \A h \in Handles :
        /\ \A g \in Handles : g # h => Owned(node[h]) \cap Owned(node[g]) = {}
        /\ IsChange(h) =>
            /\ AllNew(SedComputeChange_clone(mem, node[h]))
            /\ \A x \in Reachable("SedVariable") : OthersKept(h, addVariable(mem, node[h], x))
            /\ \A x \in Reachable("SedParameter") : OthersKept(h, addParameter(mem, node[h], x))
            /\ OthersKept(h, createVariable(mem, node[h]))
            /\ OthersKept(h, createParameter(mem, node[h]))
            /\ \A n \in 0..MaxAddr :
                 /\ OthersKept(h, removeVariable(mem, node[h], n))
                 /\ OthersKept(h, removeParameter(mem, node[h], n))
            /\ \A sid \in QueryIds :
                 /\ OthersKept(h, removeVariableById(mem, node[h], sid))
                 /\ OthersKept(h, removeParameterById(mem, node[h], sid))
            /\ \A m \in Reachable("ASTNode") \cup {NULL} :
                 OthersKept(h, setMath(mem, node[h], m))
            /\ OthersKept(h, unsetMath(mem, node[h]))
            /\ OthersKept(h, [heap |-> SedComputeChange_dtor(mem, node[h])])
        /\ IsPlot(h) =>
            /\ AllNew(SedPlot2D_clone(mem, node[h]))
            /\ \A x \in Reachable("SedCurve") : OthersKept(h, addCurve(mem, node[h], x))
            /\ OthersKept(h, createCurve(mem, node[h]))
            /\ \A n \in 0..MaxAddr : OthersKept(h, removeCurve(mem, node[h], n))
            /\ \A sid \in QueryIds : OthersKept(h, removeCurveById(mem, node[h], sid))
            /\ OthersKept(h, [heap |-> SedPlot2D_dtor(mem, node[h])])

\* A node and its clone, each with math, equal by value and made of
\* different objects; unsetMath on one leaves the other its math.
C9_Witness ==
    \E h \in Handles, g \in Handles :
        /\ g # h /\ IsChange(h) /\ node[h].mMath # NULL
        /\ View(heap, node[g]) = View(heap, node[h])
        /\ Owned(node[h]) \cap Owned(node[g]) = {}
        /\ unsetMath(mem, node[h]).heap[node[g].mMath] = heap[node[g].mMath]
        /\ unsetMath(mem, node[h]).heap[node[h].mMath] = Free

\* ---- C10
\* The node parsed from what the node n writes.
ReadBack(n) ==
    IF n.kind = "SedComputeChange"
    THEN SedComputeChange_read(mem, SedComputeChange_new, SedComputeChange_writeElements(mem, n))
    ELSE SedPlot2D_read(mem, SedPlot2D_new, SedPlot2D_writeElements(mem, n))

\* C10: writing a node and parsing what was written yields a node equal to it
\* by value: the same children in the same order in each collection and the
\* same math, or no math in both.
C10_RoundTrip ==
    \A h \in Handles :
        node[h] # NoNode => View(ReadBack(node[h]).heap, ReadBack(node[h]).this)
                              = View(heap, node[h])

\* A node with a variable carrying "a", a parameter and math: what it writes
\* has the superclass's block and three children, and the node parsed from
\* them holds the three parts.
C10_Witness ==
    \E h \in Handles :
        /\ IsChange(h) /\ Carries(heap, node[h].mVariable, "a")
        /\ node[h].mParameter # <<>> /\ node[h].mMath # NULL
        /\ Len(SedComputeChange_writeElements(mem, node[h])) = 4
        /\ Len(ReadBack(node[h]).this.mParameter) = Len(node[h].mParameter)
        /\ ReadBack(node[h]).this.mMath # NULL

\* ---- C11
\* The positions in a stream of the children of a name.
Named(stream, name) == {i \in 1..Len(stream) : stream[i].name = name}

\* In what is written, the wrapper of a name appears once when the collection
\* holds elements, and then holds them all; it does not appear otherwise.
WrapperIffPopulated(stream, name, items) ==
    /\ Cardinality(Named(stream, name)) = IF Len(items) > 0 THEN 1 ELSE 0
    /\ \A i \in Named(stream, name) : Len(stream[i].items) = Len(items)

\* C11: writeElements writes the wrapper listOfVariables, listOfParameters or
\* listOfCurves exactly when the node holds elements of the kind, and the
\* node parsed from an output without a wrapper holds no element of the kind.
C11_EmptyOmitted ==
    \A h \in Handles :
        /\ IsChange(h) =>
            /\ WrapperIffPopulated(SedComputeChange_writeElements(mem, node[h]),
                                   "listOfVariables", node[h].mVariable)
            /\ WrapperIffPopulated(SedComputeChange_writeElements(mem, node[h]),
                                   "listOfParameters", node[h].mParameter)
            /\ (Named(SedComputeChange_writeElements(mem, node[h]), "listOfVariables") = {})
                 = (ReadBack(node[h]).this.mVariable = <<>>)
            /\ (Named(SedComputeChange_writeElements(mem, node[h]), "listOfParameters") = {})
                 = (ReadBack(node[h]).this.mParameter = <<>>)
        /\ IsPlot(h) =>
            /\ WrapperIffPopulated(SedPlot2D_writeElements(mem, node[h]),
                                   "listOfCurves", node[h].mCurve)
            /\ (Named(SedPlot2D_writeElements(mem, node[h]), "listOfCurves") = {})
                 = (ReadBack(node[h]).this.mCurve = <<>>)

\* A node with variables and no parameter: what it writes has the wrapper of
\* the variables and none of the parameters, and the node parsed from it has
\* no parameter.
C11_Witness ==
    \E h \in Handles :
        /\ IsChange(h) /\ Len(node[h].mVariable) = 2 /\ node[h].mParameter = <<>>
        /\ Named(SedComputeChange_writeElements(mem, node[h]), "listOfVariables") # {}
        /\ Named(SedComputeChange_writeElements(mem, node[h]), "listOfParameters") = {}
        /\ ReadBack(node[h]).this.mParameter = <<>>
        /\ Len(ReadBack(node[h]).this.mVariable) = 2

\* ---- C12
\* r is the result of a wrapper called with a null handle: no object is
\* touched and no pointer returned.
NullHandled(r) == r.heap = mem /\ r.this = NoNode /\ r.obj = NULL

\* r is the result of a wrapper with an int result called with a null handle.
NullHandledWith(r, ret) == NullHandled(r) /\ r.ret = ret

\* r is the result of a mutator called with a null handle.
NullHandledInvalid(r) == NullHandled(r) /\ Value(r.ret) = Value(LIBSEDML_INVALID_OBJECT)

\* C12: a wrapper called with a null handle touches no object; a count is
\* SEDML_INT_MAX, the result of setMath, unsetMath and the adds has the value
\* of the invalid-object code, a pointer is NULL and a predicate is 0.
C12_NullHandle ==
    /\ \A x \in Reachable("SedVariable") \cup {NULL} :
         NullHandledInvalid(SedComputeChange_addVariable(mem, NoNode, x))
    /\ \A x \in Reachable("SedParameter") \cup {NULL} :
         NullHandledInvalid(SedComputeChange_addParameter(mem, NoNode, x))
    /\ \A x \in Reachable("SedCurve") \cup {NULL} :
         NullHandledInvalid(SedPlot2D_addCurve(mem, NoNode, x))
    /\ \A m \in Reachable("ASTNode") \cup {NULL} :
         NullHandledInvalid(SedComputeChange_setMath(mem, NoNode, m))
    /\ NullHandledInvalid(SedComputeChange_unsetMath(mem, NoNode))
    /\ NullHandledWith(SedComputeChange_getNumVariables(mem, NoNode), SEDML_INT_MAX)
    /\ NullHandledWith(SedComputeChange_getNumParameters(mem, NoNode), SEDML_INT_MAX)
    /\ NullHandledWith(SedPlot2D_getNumCurves(mem, NoNode), SEDML_INT_MAX)
    /\ NullHandledWith(SedComputeChange_isSetMath(mem, NoNode), 0)
    /\ \A base \in BOOLEAN :
        /\ NullHandledWith(SedComputeChange_hasRequiredAttributes(mem, NoNode, base), 0)
        /\ NullHandledWith(SedComputeChange_hasRequiredElements(mem, NoNode, base), 0)
        /\ NullHandledWith(SedPlot2D_hasRequiredAttributes(mem, NoNode, base), 0)
        /\ NullHandledWith(SedPlot2D_hasRequiredElements(mem, NoNode, base), 0)
    /\ NullHandled(SedComputeChange_free(mem, NoNode))
    /\ NullHandled(SedPlot2D_free(mem, NoNode))
    /\ NullHandled(SedComputeChange_clone_C(mem, NoNode))
    /\ NullHandled(SedPlot2D_clone_C(mem, NoNode))
    /\ NullHandled(SedComputeChange_getMath(mem, NoNode))
    /\ NullHandled(SedComputeChange_createVariable(mem, NoNode))
    /\ NullHandled(SedComputeChange_createParameter(mem, NoNode))
    /\ NullHandled(SedPlot2D_createCurve(mem, NoNode))
    /\ \A n \in Indices :
        /\ NullHandled(SedComputeChange_getVariable(mem, NoNode, n))
        /\ NullHandled(SedComputeChange_removeVariable(mem, NoNode, n))
        /\ NullHandled(SedComputeChange_getParameter(mem, NoNode, n))
        /\ NullHandled(SedComputeChange_removeParameter(mem, NoNode, n))
        /\ NullHandled(SedPlot2D_getCurve(mem, NoNode, n))
        /\ NullHandled(SedPlot2D_removeCurve(mem, NoNode, n))
    /\ \A sid \in QueryIds \cup {NullString}, ub \in UndefinedString :
        /\ NullHandled(SedComputeChange_getVariableById(mem, NoNode, sid, ub))
        /\ NullHandled(SedComputeChange_removeVariableById(mem, NoNode, sid, ub))
        /\ NullHandled(SedComputeChange_getParameterById(mem, NoNode, sid, ub))
        /\ NullHandled(SedComputeChange_removeParameterById(mem, NoNode, sid, ub))
        /\ NullHandled(SedPlot2D_getCurveById(mem, NoNode, sid, ub))
        /\ NullHandled(SedPlot2D_removeCurveById(mem, NoNode, sid, ub))

\* One handle is null, the other refers to a node with a variable and math,
\* and the caller holds a variable: the wrappers called with the null handle
\* answer with the sentinels, and called with the other they act on the node.
C12_Witness ==
    \E h \in Handles, c \in Handles, x \in caller :
        /\ node[c] = NoNode /\ IsChange(h) /\ heap[x].type = "SedVariable"
        /\ Len(node[h].mVariable) = 1 /\ node[h].mMath # NULL
        /\ SedComputeChange_addVariable(mem, node[c], x).ret = LIBSBML_INVALID_OBJECT
        /\ SedComputeChange_addVariable(mem, node[h], x).ret = LIBSEDML_OPERATION_SUCCESS
        /\ SedComputeChange_getNumVariables(mem, node[c]).ret = SEDML_INT_MAX
        /\ SedComputeChange_getNumVariables(mem, node[h]).ret = 1
        /\ SedComputeChange_getMath(mem, node[c]).obj = NULL
        /\ SedComputeChange_getMath(mem, node[h]).obj # NULL

\* ---- C13
\* What a caller may pass as a handle of kind k: null, or a node it holds.
HandlesOf(k) == {NoNode} \cup {node[h] : h \in {g \in Handles : node[g].kind = k}}

\* r is the result of a wrapper that returned to its caller.
Returned(r) == ~Thrown(r)

\* C13: every wrapper of SedComputeChange and SedPlot2D returns to its caller
\* for every handle, null or not, and every argument; create returns a node
\* for every level and version, and no SedConstructorException of a copy
\* constructor leaves clone.
C13_NoExceptionCrosses ==
    /\ \A level \in Levels, version \in Levels :
        /\ Returned(SedComputeChange_create(mem, level, version))
        /\ SedComputeChange_create(mem, level, version).this.kind = "SedComputeChange"
        /\ Returned(SedPlot2D_create(mem, level, version))
        /\ SedPlot2D_create(mem, level, version).this.kind = "SedPlot2D"
    /\ \A scc \in HandlesOf("SedComputeChange") :
        /\ Returned(SedComputeChange_clone_C(mem, scc))
        /\ (SedComputeChange_clone_C(mem, scc).this = NoNode) = (scc = NoNode)
        /\ Returned(SedComputeChange_free(mem, scc))
        /\ Returned(SedComputeChange_getMath(mem, scc))
        /\ Returned(SedComputeChange_isSetMath(mem, scc))
        /\ Returned(SedComputeChange_unsetMath(mem, scc))
        /\ Returned(SedComputeChange_createVariable(mem, scc))
        /\ Returned(SedComputeChange_createParameter(mem, scc))
        /\ Returned(SedComputeChange_getNumVariables(mem, scc))
        /\ Returned(SedComputeChange_getNumParameters(mem, scc))
        /\ \A m \in Reachable("ASTNode") \cup {NULL} :
             Returned(SedComputeChange_setMath(mem, scc, m))
        /\ \A x \in Reachable("SedVariable") \cup {NULL} :
             Returned(SedComputeChange_addVariable(mem, scc, x))
        /\ \A x \in Reachable("SedParameter") \cup {NULL} :
             Returned(SedComputeChange_addParameter(mem, scc, x))
        /\ \A n \in Indices :
            /\ Returned(SedComputeChange_getVariable(mem, scc, n))
            /\ Returned(SedComputeChange_removeVariable(mem, scc, n))
            /\ Returned(SedComputeChange_getParameter(mem, scc, n))
            /\ Returned(SedComputeChange_removeParameter(mem, scc, n))
        /\ \A sid \in QueryIds \cup {NullString}, ub \in UndefinedString :
            /\ Returned(SedComputeChange_getVariableById(mem, scc, sid, ub))
            /\ Returned(SedComputeChange_removeVariableById(mem, scc, sid, ub))
            /\ Returned(SedComputeChange_getParameterById(mem, scc, sid, ub))
            /\ Returned(SedComputeChange_removeParameterById(mem, scc, sid, ub))
        /\ \A base \in BOOLEAN :
            /\ Returned(SedComputeChange_hasRequiredAttributes(mem, scc, base))
            /\ Returned(SedComputeChange_hasRequiredElements(mem, scc, base))
    /\ \A spd \in HandlesOf("SedPlot2D") :
        /\ Returned(SedPlot2D_clone_C(mem, spd))
        /\ (SedPlot2D_clone_C(mem, spd).this = NoNode) = (spd = NoNode)
        /\ Returned(SedPlot2D_free(mem, spd))
        /\ Returned(SedPlot2D_createCurve(mem, spd))
        /\ Returned(SedPlot2D_getNumCurves(mem, spd))
        /\ \A x \in Reachable("SedCurve") \cup {NULL} :
             Returned(SedPlot2D_addCurve(mem, spd, x))
        /\ \A n \in Indices :
            /\ Returned(SedPlot2D_getCurve(mem, spd, n))
            /\ Returned(SedPlot2D_removeCurve(mem, spd, n))
        /\ \A sid \in QueryIds \cup {NullString}, ub \in UndefinedString :
            /\ Returned(SedPlot2D_getCurveById(mem, spd, sid, ub))
            /\ Returned(SedPlot2D_removeCurveById(mem, spd, sid, ub))
        /\ \A base \in BOOLEAN :
            /\ Returned(SedPlot2D_hasRequiredAttributes(mem, spd, base))
            /\ Returned(SedPlot2D_hasRequiredElements(mem, spd, base))

\* One handle is null and the other refers to a node with math and a
\* variable: clone returns a copy of the node and NULL for the null handle,
\* while the copy constructor given the null source throws.
C13_Witness ==
    \E h \in Handles, c \in Handles :
        /\ node[c] = NoNode /\ IsChange(h)
        /\ node[h].mMath # NULL /\ Len(node[h].mVariable) = 1
        /\ Returned(SedComputeChange_clone_C(mem, node[h]))
        /\ SedComputeChange_clone_C(mem, node[h]).this.mMath # NULL
        /\ Returned(SedComputeChange_clone_C(mem, node[c]))
        /\ SedComputeChange_copyCtor(mem, node[c], "returns").thrown = SedConstructorException

\* ---- C14
\* C14: the predicates of a node are true exactly when what its superclass
\* requires is set (base) and what the node's own class requires is set:
\* hasRequiredElements of a computeChange is true exactly when base holds
\* and math is set, and it is false once math is unset; the classes add no
\* attribute and a plot no element, so their other predicates are base.
C14_RequiredIffAllSet ==
    \A h \in Handles, base \in BOOLEAN :
        /\ IsChange(h) =>
            /\ hasRequiredAttributes(node[h], base) = base
            /\ hasRequiredElements(node[h], base) = (base /\ node[h].mMath # NULL)
            /\ ~hasRequiredElements(unsetMath(mem, node[h]).this, base)
            /\ SedComputeChange_hasRequiredElements(mem, node[h], base).ret
                 = (IF base /\ node[h].mMath # NULL THEN 1 ELSE 0)
        /\ IsPlot(h) =>
            /\ SedPlot2D_hasRequiredAttributes_m(node[h], base) = base
            /\ SedPlot2D_hasRequiredElements_m(node[h], base) = base

\* ---- C15
\* Every object of the set S is released in the heap hp.
Released(hp, S) == \A a \in S : hp[a] = Free

\* C15: after a node is destroyed, by delete or by the wrapper free, every
\* element its collections held and the math tree it held are released.
C15_DestroyCascades ==
    \A h \in Handles :
        /\ IsChange(h) =>
            /\ Released(SedComputeChange_dtor(mem, node[h]), Owned(node[h]))
            /\ Released(SedComputeChange_free(mem, node[h]).heap, Owned(node[h]))
        /\ IsPlot(h) =>
            /\ Released(SedPlot2D_dtor(mem, node[h]), Owned(node[h]))
            /\ Released(SedPlot2D_free(mem, node[h]).heap, Owned(node[h]))

\* ---- C16
\* r is the result of a copy or an assignment that failed fast: it threw
\* SedConstructorException before any part of the source was read, and
\* left the heap and the target this as they were.
FailedFast(r, this) ==
    /\ Thrown(r)
    /\ r.thrown = SedConstructorException
    /\ r.read = {}
    /\ r.heap = mem
    /\ r.this = this

\* C16: the copy constructors and the assignments of SedComputeChange and
\* SedPlot2D given a null source throw SedConstructorException from the null
\* test, which comes first: no part of the source, the superclass part
\* included, has been read, and the target is unchanged.
C16_NullSourceFailsFast ==
    /\ \A ub \in UndefinedRead :
        /\ FailedFast(SedComputeChange_copyCtor(mem, NoNode, ub), NoNode)
        /\ FailedFast(SedPlot2D_copyCtor(mem, NoNode, ub), NoNode)
    /\ \A h \in Handles :
        /\ IsChange(h) => FailedFast(SedComputeChange_assignOp(mem, node[h], NoNode, FALSE), node[h])
        /\ IsPlot(h) => FailedFast(SedPlot2D_assignOp(mem, node[h], NoNode, FALSE), node[h])

\* ---- C17
\* r is the result of a create on the collection that went from old to new:
\* the collection has grown by one at its end, the element returned is a new
\* object of type t, it is the very element get(size - 1) returns, it was
\* held by no node and is not held by the caller, and no other object has
\* changed.
CreatedAndOwned(r, old, new, t) ==
    /\ SedListOf_size(new) = SedListOf_size(old) + 1
    /\ SubSeq(new, 1, Len(old)) = old
    /\ r.obj # NULL
    /\ mem[r.obj] = Free
    /\ r.heap[r.obj].type = t
    /\ SedListOf_get(new, SedListOf_size(new) - 1) = r.obj
    /\ r.obj \notin Range(old)
    /\ r.obj \notin caller
    /\ \A g \in Handles : r.obj \notin Owned(node[g])
    /\ \A a \in DOMAIN mem \ {r.obj} : r.heap[a] = mem[a]

\* C17: createVariable, createParameter and createCurve, and their
\* wrappers, make a new element, append that very element to the collection
\* and return it: the size grows by one, get(size - 1) is the element
\* returned, and the collection owns it, not the caller.
C17_CreateOwned ==
    \A h \in Handles :
        /\ IsChange(h) =>
            /\ CreatedAndOwned(createVariable(mem, node[h]), node[h].mVariable,
                               createVariable(mem, node[h]).this.mVariable, "SedVariable")
            /\ createVariable(mem, node[h]).this.mParameter = node[h].mParameter
            /\ getVariable(createVariable(mem, node[h]).heap,
                           createVariable(mem, node[h]).this,
                           getNumVariables(createVariable(mem, node[h]).this) - 1).obj
                 = createVariable(mem, node[h]).obj
            /\ SedComputeChange_createVariable(mem, node[h]) = createVariable(mem, node[h])
            /\ CreatedAndOwned(createParameter(mem, node[h]), node[h].mParameter,
                               createParameter(mem, node[h]).this.mParameter, "SedParameter")
            /\ createParameter(mem, node[h]).this.mVariable = node[h].mVariable
            /\ SedComputeChange_createParameter(mem, node[h]) = createParameter(mem, node[h])
        /\ IsPlot(h) =>
            /\ CreatedAndOwned(createCurve(mem, node[h]), node[h].mCurve,
                               createCurve(mem, node[h]).this.mCurve, "SedCurve")
            /\ SedPlot2D_createCurve(mem, node[h]) = createCurve(mem, node[h])

\* A node with one variable, one parameter and math: createVariable makes
\* its second variable, which getVariable(1) returns.
C17_Witness ==
    \E h \in Handles :
        /\ IsChange(h) /\ node[h].mMath # NULL
        /\ Len(node[h].mVariable) = 1 /\ Len(node[h].mParameter) = 1
        /\ getNumVariables(createVariable(mem, node[h]).this) = 2
        /\ getVariable(mem, createVariable(mem, node[h]).this, 1).obj
             = createVariable(mem, node[h]).obj
        /\ createVariable(mem, node[h]).obj \notin Owned(node[h])

Rank(name) ==
    IF name \in {"SedChange", "SedOutput"} THEN 1
    ELSE IF name = "listOfVariables" THEN 2
    ELSE IF name \in {"listOfParameters", "listOfCurves"} THEN 3
    ELSE 4

\* The names of the children written, in the order written.
Names(stream) == [i \in 1..Len(stream) |-> stream[i].name]

\* The superclass's elements come first and every child written comes after
\* the children of a lower rank.
InOrder(stream, super) ==
    /\ Len(stream) >= 1
    /\ stream[1].name = super
    /\ \A i \in 1..Len(stream), j \in 1..Len(stream) :
         i < j => Rank(stream[i].name) < Rank(stream[j].name)

\* C19: SedComputeChange::writeElements writes the elements of SedChange,
\* then listOfVariables, then listOfParameters, then math, whichever of them
\* it writes: no wrapper follows the math and no element of the superclass
\* follows a wrapper.  SedPlot2D::writeElements writes the elements of
\* SedOutput before listOfCurves.
C19_WriteOrder ==
    \A h \in Handles :
        /\ IsChange(h) =>
            /\ InOrder(SedComputeChange_writeElements(mem, node[h]), "SedChange")
            /\ node[h].mMath # NULL =>
                 SedComputeChange_writeElements(mem, node[h])
                    [Len(SedComputeChange_writeElements(mem, node[h]))].name = "math"
        /\ IsPlot(h) => InOrder(SedPlot2D_writeElements(mem, node[h]), "SedOutput")

\* A node with a variable, a parameter and math writes all four children.
C19_Witness ==
    \E h \in Handles :
        /\ IsChange(h)
        /\ Names(SedComputeChange_writeElements(mem, node[h]))
             = <<"SedChange", "listOfVariables", "listOfParameters", "math">>

\* ---- C20
\* The tags a stream may hold next: the children of the two classes and one
\* that is a child of neither.
Tags == {"listOfVariables", "listOfParameters", "listOfCurves", "math", "notes"}

\* What the superclass's createObject may return: NULL or an object of its own.
Bases == {"NULL", "SedBase"}

\* r is the result of a createObject that only looked: the stream, the
\* node and the heap are as before the call.
OnlyPeeked(r, stream, this) == r.stream = stream /\ r.this = this /\ r.heap = mem

\* C20: createObject leaves the stream, the node and its collections as
\* they were; a computeChange returns its variables exactly when the next
\* tag is listOfVariables, its parameters exactly when it is
\* listOfParameters, a plot its curves exactly when it is listOfCurves, and
\* for any other tag what the superclass's createObject returned.
C20_CreateObjectDispatch ==
    \A h \in Handles, tag \in Tags, base \in Bases :
        /\ IsChange(h) =>
            LET stream == <<Wrapper(tag, <<>>)>> \o SedComputeChange_writeElements(mem, node[h])
                r == createObject(mem, node[h], stream, base)
            IN /\ OnlyPeeked(r, stream, node[h])
               /\ (r.obj = "mVariable") = (tag = "listOfVariables")
               /\ (r.obj = "mParameter") = (tag = "listOfParameters")
               /\ tag \notin {"listOfVariables", "listOfParameters"} => r.obj = base
        /\ IsPlot(h) =>
            LET stream == <<Wrapper(tag, <<>>)>> \o SedPlot2D_writeElements(mem, node[h])
                r == SedPlot2D_createObject_m(mem, node[h], stream, base)
            IN /\ OnlyPeeked(r, stream, node[h])
               /\ (r.obj = "mCurve") = (tag = "listOfCurves")
               /\ tag # "listOfCurves" => r.obj = base

\* A node with a variable and a parameter, and a stream that holds what the
\* node wrote after the superclass's part: createObject returns the
\* variables for it, the parameters for the rest of it, and the superclass's
\* object for a tag of neither.
C20_Witness ==
    \E h \in Handles :
        /\ IsChange(h) /\ Len(node[h].mVariable) = 1 /\ Len(node[h].mParameter) = 1
        /\ createObject(mem, node[h], Tail(SedComputeChange_writeElements(mem, node[h])),
                        "NULL").obj = "mVariable"
        /\ createObject(mem, node[h],
                        Tail(Tail(SedComputeChange_writeElements(mem, node[h]))),
                        "NULL").obj = "mParameter"
        /\ createObject(mem, node[h], <<Wrapper("notes", <<>>)>>, "SedBase").obj = "SedBase"

\* ---- C21
\* The tokens a probe may meet: a math element with a tree or with none the
\* reader can build, and two elements that are not math.
MathTokens ==
    {[name |-> "math", items |-> <<>>, tree |-> t] : t \in {[fn |-> "divide", nargs |-> 2], NoTree}}

OtherTokens == {Wrapper("notes", <<>>), Wrapper("annotation", <<>>)}

\* The children left in a stream when readOtherXML is called: one or two.
ProbeStreams ==
    {<<a>> : a \in MathTokens \cup OtherTokens}
    \cup {<<a, b>> : a \in MathTokens \cup OtherTokens, b \in OtherTokens}
    \cup {<<a, b>> : a \in MathTokens \cup OtherTokens,
                     b \in {[name |-> "math", items |-> <<>>, tree |-> NoTree]}}

\* The sets of names the superclass may recognize.
SuperTags == {{}, {"notes"}, {"notes", "math"}}

\* The token at a position of a stream, the end tag past its end.
TokenAt(stream, i) == IF i <= Len(stream) THEN stream[i] ELSE EndTag

\* The original statement of C21: readOtherXML asks the superclass whether
\* or not it saw math itself, returns true exactly when one of the two
\* recognized, and the two look at the same element.
C21_BothOnSameElement ==
    \A h \in Handles, stream \in ProbeStreams, tags \in SuperTags :
        IsChange(h) =>
            LET r == SedComputeChange_readOtherXML(mem, node[h], stream, 1, tags)
            IN /\ Len(r.offered) = 2
               /\ r.ret = (stream[1].name = "math" \/ stream[1].name \in tags)
               /\ r.offered[1] = r.offered[2]

\* C21: readOtherXML asks the superclass whether or not it saw math itself
\* and returns true exactly when one of the two recognized; the superclass
\* looks at the element readOtherXML looked at when that was not math, and
\* at the one after it when it was math, which the reader has consumed.
C21_ReadFlagIsOr ==
    \A h \in Handles, stream \in ProbeStreams, tags \in SuperTags :
        IsChange(h) =>
            LET r == SedComputeChange_readOtherXML(mem, node[h], stream, 1, tags)
            IN /\ Len(r.offered) = 2
               /\ r.offered[1] = 1
               /\ r.offered[2] = IF stream[1].name = "math" THEN 2 ELSE 1
               /\ r.ret = (stream[1].name = "math"
                            \/ TokenAt(stream, r.offered[2]).name \in tags)

\* A node with math is given a math element followed by notes, which the
\* superclass recognizes: the result is true, the node holds a new tree and
\* the superclass has looked at the notes.
C21_Witness ==
    \E h \in Handles, t \in Trees :
        /\ IsChange(h) /\ node[h].mMath # NULL
        /\ LET stream == <<[name |-> "math", items |-> <<>>, tree |-> t],
                           Wrapper("notes", <<>>)>>
               r == SedComputeChange_readOtherXML(mem, node[h], stream, 1, {"notes"})
           IN /\ r.ret
              /\ r.offered = <<1, 2>>
              /\ r.stream = <<>>
              /\ r.this.mMath # NULL
              /\ r.heap[r.this.mMath] = ASTNode(t)

\* ---- C22
\* No token is consumed twice.
ConsumedOnce(consumed) ==
    \A i \in 1..Len(consumed), j \in 1..Len(consumed) :
        consumed[i].at = consumed[j].at => i = j

\* The original statement of C22: no token is consumed by two handlers, and
\* once readOtherXML has consumed a math element nobody else is offered or
\* consumes a token in the same call: the superclass looks at nothing.
C22_NothingAfterMath ==
    \A h \in Handles, stream \in ProbeStreams, tags \in SuperTags :
        IsChange(h) =>
            LET r == SedComputeChange_readOtherXML(mem, node[h], stream, 1, tags)
            IN /\ ConsumedOnce(r.consumed)
               /\ stream[1].name = "math" =>
                    /\ r.offered = <<1>>
                    /\ r.consumed = <<[by |-> "readMathML", at |-> 1]>>

\* C22: no token is consumed by two handlers and a consumed token is not
\* offered again: once readOtherXML has consumed a math element, the
\* superclass called after it is offered the token that follows, and
\* consumes that one when it recognizes it; the stream is left after the
\* tokens consumed.
C22_NoBacktracking ==
    \A h \in Handles, stream \in ProbeStreams, tags \in SuperTags :
        IsChange(h) =>
            LET r == SedComputeChange_readOtherXML(mem, node[h], stream, 1, tags)
            IN /\ ConsumedOnce(r.consumed)
               /\ r.stream = SubSeq(stream, Len(r.consumed) + 1, Len(stream))
               /\ \A i \in 1..Len(r.consumed) : r.consumed[i].at = i
               /\ stream[1].name = "math" =>
                    /\ r.consumed[1] = [by |-> "readMathML", at |-> 1]
                    /\ r.offered[Len(r.offered)] = 2
                    /\ (Len(r.consumed) = 2) = (TokenAt(stream, 2).name \in tags)
               /\ stream[1].name # "math" =>
                    (Len(r.consumed) = 1) = (stream[1].name \in tags)

\* A node is given two math elements, and the superclass recognizes math:
\* the reader consumes the first, which the node stores, and the superclass
\* the second.
C22_Witness ==
    \E h \in Handles, t \in Trees :
        /\ IsChange(h)
        /\ LET stream == <<[name |-> "math", items |-> <<>>, tree |-> t],
                           [name |-> "math", items |-> <<>>, tree |-> NoTree]>>
               r == SedComputeChange_readOtherXML(mem, node[h], stream, 1, {"notes", "math"})
           IN /\ r.consumed = <<[by |-> "readMathML", at |-> 1], [by |-> "SedChange", at |-> 2]>>
              /\ r.stream = <<>>
              /\ r.heap[r.this.mMath] = ASTNode(t)

\* ---- C23
\* The links of a node whose collections all refer to the node behind h.
LinkedTo(h) ==
    IF IsChange(h) THEN [mVariable |-> h, mParameter |-> h] ELSE [mCurve |-> h]

\* C23: after the constructors, the copies, the assignments and the clones,
\* and after every operation that follows, the parent link of each
\* collection of a node refers to that node; the links of a copy refer to
\* the copy, not to the node copied.
C23_ParentLinks ==
    \A h \in Handles :
        /\ node[h] # NoNode => parent[h] = LinkedTo(h)
        /\ node[h] = NoNode => parent[h] = NoLinks
        /\ \A c \in Handles :
            /\ IsChange(h) =>
                /\ SedComputeChange_copy_links(parent[h], c) = [mVariable |-> c, mParameter |-> c]
                /\ IsChange(c) =>
                     SedComputeChange_assign_links(parent[c], parent[h], c = h, c)
                        = [mVariable |-> c, mParameter |-> c]
            /\ IsPlot(h) =>
                /\ SedPlot2D_copy_links(parent[h], c) = [mCurve |-> c]
                /\ IsPlot(c) =>
                     SedPlot2D_assign_links(parent[c], parent[h], c = h, c) = [mCurve |-> c]

\* Two nodes equal by value, each with a variable, as after a copy: the
\* links of each refer to itself.
C23_Witness ==
    \E h \in Handles, c \in Handles :
        /\ h # c /\ IsChange(h) /\ IsChange(c)
        /\ Len(node[h].mVariable) = 1
        /\ View(heap, node[h]) = View(heap, node[c])
        /\ parent[h].mVariable = h /\ parent[h].mParameter = h
        /\ parent[c].mVariable = c /\ parent[c].mParameter = c

\* ---- C24
\* The expression trees allocated in the heap hp.
TreesIn(hp) == {a \in DOMAIN hp : hp[a].type = "ASTNode"}

\* r is the result of an operation on the node this that leaked no tree: but
\* for the tree the node holds, the trees allocated after it are those that
\* were allocated before it, the tree the node held not among them.
NoTreeLeaked(r, this) == TreesIn(r.heap) \ Math(r.this) = TreesIn(mem) \ Math(this)

\* C24: setMath, unsetMath, readOtherXML and assignment release the tree the
\* node held before they store another or none: no tree is left allocated
\* that no node holds.
C24_OldTreeReleased ==
    \A h \in Handles : IsChange(h) =>
        /\ \A math \in {NULL} \cup TreesIn(heap) :
               NoTreeLeaked(setMath(mem, node[h], math), node[h])
        /\ NoTreeLeaked(unsetMath(mem, node[h]), node[h])
        /\ \A tree \in Trees \cup {NoTree}, base \in BOOLEAN :
               NoTreeLeaked(readOtherXML(mem, node[h], "math", tree, base), node[h])
        /\ \A c \in Handles : IsChange(c) =>
               NoTreeLeaked(SedComputeChange_assignOp(mem, node[h], node[c], c = h),
                            node[h])

\* ---- C25
\* C25: readOtherXML on a math element releases the tree the node held,
\* stores the tree the MathML reader returns, whatever it is, and reports
\* true; when the reader returns no tree the node ends with no math.
C25_MathReadReplaces ==
    \A h \in Handles : IsChange(h) =>
        \A tree \in Trees \cup {NoTree}, base \in BOOLEAN :
            LET r == readOtherXML(mem, node[h], "math", tree, base)
            IN /\ r.ret = TRUE
               /\ NoTreeLeaked(r, node[h])
               /\ r.this = [node[h] EXCEPT !.mMath = r.this.mMath]
               /\ tree = NoTree => r.this.mMath = NULL
               /\ tree # NoTree =>
                    /\ r.this.mMath # NULL
                    /\ r.heap[r.this.mMath] = ASTNode(tree)
                    /\ Delete(mem, node[h].mMath)[r.this.mMath] = Free

\* A node holding a well-formed tree loses it to a math element the reader
\* finds no tree in.
C25_Witness ==
    \E h \in Handles :
        /\ IsChange(h)
        /\ node[h].mMath # NULL
        /\ isWellFormedASTNode(heap[node[h].mMath])
        /\ LET r == readOtherXML(mem, node[h], "math", NoTree, FALSE)
           IN r.this.mMath = NULL /\ r.heap[node[h].mMath] = Free /\ r.ret

\* ---- C26
\* The objects of type t allocated in the heap.
ObjectsOf(t) == {a \in Addr : heap[a].type = t}

\* The result r left the collection named part of the node this as it was:
\* the same elements in the same order, each with the contents it had.
SameList(r, this, part) ==
    /\ r.this[part] = this[part]
    /\ \A a \in Range(this[part]) : r.heap[a] = mem[a]

\* The result r left the math of the node this as it was.
SameMath(r, this) ==
    /\ r.this.mMath = this.mMath
    /\ this.mMath # NULL => r.heap[this.mMath] = mem[this.mMath]

\* The results of every add, create and remove on the variables, and on the
\* parameters, of the node this.
OnVariables(this) ==
    {addVariable(mem, this, sv) : sv \in {NULL} \cup ObjectsOf("SedVariable")}
    \cup {createVariable(mem, this)}
    \cup {removeVariable(mem, this, n) : n \in 0..MaxAddr}
    \cup {removeVariableById(mem, this, sid) : sid \in QueryIds}

OnParameters(this) ==
    {addParameter(mem, this, sp) : sp \in {NULL} \cup ObjectsOf("SedParameter")}
    \cup {createParameter(mem, this)}
    \cup {removeParameter(mem, this, n) : n \in 0..MaxAddr}
    \cup {removeParameterById(mem, this, sid) : sid \in QueryIds}

OnMath(this) ==
    {setMath(mem, this, math) : math \in {NULL} \cup TreesIn(heap)}
    \cup {unsetMath(mem, this)}

\* C26: add, create and remove on the variables leave the parameters and the
\* math as they were, those on the parameters leave the variables and the
\* math as they were, and setMath and unsetMath leave both collections as
\* they were.
C26_PartsIndependent ==
    \A h \in Handles : IsChange(h) =>
        /\ \A r \in OnVariables(node[h]) :
               SameList(r, node[h], "mParameter") /\ SameMath(r, node[h])
        /\ \A r \in OnParameters(node[h]) :
               SameList(r, node[h], "mVariable") /\ SameMath(r, node[h])
        /\ \A r \in OnMath(node[h]) :
               SameList(r, node[h], "mVariable") /\ SameList(r, node[h], "mParameter")

\* A node with all three parts present, on which an operation on each part
\* changes that part.
C26_Witness ==
    \E h \in Handles :
        /\ IsChange(h)
        /\ Len(node[h].mVariable) = 1 /\ Len(node[h].mParameter) = 1
        /\ node[h].mMath # NULL
        /\ removeVariable(mem, node[h], 0).this.mVariable = <<>>
        /\ Len(createParameter(mem, node[h]).this.mParameter) = 2
        /\ unsetMath(mem, node[h]).this.mMath = NULL

\* ---- C27
\* The math of the node behind h is the node's alone: no caller owns it and
\* no other node holds it.
PrivateMath(h) ==
    /\ node[h].mMath \notin caller
    /\ \A g \in Handles \ {h} : IsChange(g) => node[g].mMath # node[h].mMath

\* r is the result of an operation that left the node this without math and
\* returned success.
MathAbsent(r) == r.this.mMath = NULL /\ r.ret = LIBSEDML_OPERATION_SUCCESS

\* C27: a node on which nothing but setMath and unsetMath was called since
\* its construction holds no math, or a well-formed tree that is its own;
\* setMath(NULL) and unsetMath() have one effect, the math absent and
\* success returned, and a second call of either changes nothing more.
C27_MathInvariant ==
    \A h \in Handles : IsChange(h) =>
        /\ node[h].mMath # NULL =>
               isWellFormedASTNode(heap[node[h].mMath]) /\ PrivateMath(h)
        /\ LET s == setMath(mem, node[h], NULL)
               u == unsetMath(mem, node[h])
           IN /\ s = u
              /\ MathAbsent(s)
              /\ setMath(s.heap, s.this, NULL) = s
              /\ unsetMath(u.heap, u.this) = u
              /\ unsetMath(s.heap, s.this) = s
              /\ setMath(u.heap, u.this, NULL) = u

\* A node holds a copy of the well-formed tree the caller still owns, and
\* unsetMath releases the copy.
C27_Witness ==
    \E h \in Handles, m \in caller :
        /\ IsChange(h)
        /\ node[h].mMath # NULL /\ node[h].mMath # m
        /\ heap[node[h].mMath] = heap[m]
        /\ unsetMath(mem, node[h]).heap[node[h].mMath] = Free

\* ---- C28
\* The levels and versions a node is constructed with.
SchemaLevels == 1..2

\* C28: the child that createVariable, createParameter or createCurve makes
\* and stores in a node carries the level and version of the node, whatever
\* level and version the node was constructed with.
C28_ChildCarriesLevel ==
    \A h \in Handles, level \in SchemaLevels, version \in SchemaLevels :
        LET sedns == setSedNamespacesAndOwn(level, version)
        IN /\ IsChange(h) =>
                /\ createVariable(mem, node[h]).obj # NULL
                /\ createVariable_namespaces(sedns) = sedns
                /\ createParameter(mem, node[h]).obj # NULL
                /\ createParameter_namespaces(sedns) = sedns
           /\ IsPlot(h) =>
                /\ createCurve(mem, node[h]).obj # NULL
                /\ createCurve_namespaces(sedns) = sedns

\* ---- C29
\* r is the result of a wrapper that returned NULL and left the heap and the
\* node scc as they were.
NullAndUnchanged(r, scc) == Returned(r) /\ r = Result(mem, scc, "", NULL)

\* C29: the by-identifier wrappers called with a null identifier string
\* return NULL and leave every object as it was, whether the handle is null
\* or refers to a node.
C29_NullIdTolerated ==
    \A ub \in UndefinedString :
        /\ \A scc \in HandlesOf("SedComputeChange") :
            /\ NullAndUnchanged(SedComputeChange_getVariableById(mem, scc, NullString, ub), scc)
            /\ NullAndUnchanged(SedComputeChange_removeVariableById(mem, scc, NullString, ub), scc)
            /\ NullAndUnchanged(SedComputeChange_getParameterById(mem, scc, NullString, ub), scc)
            /\ NullAndUnchanged(SedComputeChange_removeParameterById(mem, scc, NullString, ub), scc)
        /\ \A spd \in HandlesOf("SedPlot2D") :
            /\ NullAndUnchanged(SedPlot2D_getCurveById(mem, spd, NullString, ub), spd)
            /\ NullAndUnchanged(SedPlot2D_removeCurveById(mem, spd, NullString, ub), spd)

====
